---- MODULE Spec2Model ----
(***************************************************************************)
(* A model of the koto tree-walking evaluator (src/src/koto/src/runtime.rs) *)
(* The Runtime is a state machine whose operations are `run` (one script)  *)
(* and the host's registration of external functions.  Every Rust function *)
(* of the evaluator is an operator from interpreter states to interpreter  *)
(* states; a state carries the outcome ("ok", "err" for a returned         *)
(* RuntimeError, "abort" for a panic) the way `?` threads it.              *)
(***************************************************************************)
EXTENDS Integers, Sequences, FiniteSets, TLC

VARIABLES global, builtins, call_stack, return_stack, status, last, result, log, runs,
          iter

vars == <<global, builtins, call_stack, return_stack, status, last, result, log, runs, iter>>

\* ------------------------------------------------------------------ bounds
\* definitions run on one Runtime before the last script
MaxRuns == 2
\* the largest literal bound of the range scripts
MaxBound == 2
\* the longest sequence an iterator of the iterator module produces
MaxLen == 3

\* ------------------------------------------------------------------ values
Empty == [t |-> "Empty"]
Bool(b) == [t |-> "Bool", b |-> b]
Number(n) == [t |-> "Number", n |-> n]
Str(s) == [t |-> "Str", s |-> s]
List(l) == [t |-> "List", l |-> l]
Range(min, max) == [t |-> "Range", min |-> min, max |-> max]
Map(m) == [t |-> "Map", m |-> m]
\* four lanes, each a ratio <<numerator, denominator>>
Vec4(v) == [t |-> "Vec4", v |-> v]
Function(f) == [t |-> "Function", f |-> f]
For(f) == [t |-> "For", f |-> f]

\* the empty HashMap
NoBindings == [x \in {} |-> Empty]

\* HashMap::insert
Insert(m, id, v) == [x \in (DOMAIN m) \cup {id} |-> IF x = id THEN v ELSE m[x]]

\* a HashMap::extend that keeps the entries a already has
extend_keeping_existing(a, b) ==
    [x \in (DOMAIN a) \cup (DOMAIN b) |-> IF x \in DOMAIN a THEN a[x] ELSE b[x]]

\* HashMap::extend: the entries of b replace those of a
Extend(a, b) == [x \in (DOMAIN a) \cup (DOMAIN b) |-> IF x \in DOMAIN b THEN b[x] ELSE a[x]]

\* Option<Value>
None == <<>>
Some(v) == <<v>>

\* `n as isize` on the integer-valued Numbers of the model
AsIsize(n) == n
\* `n as usize`: the cast saturates, a negative number becomes 0
AsUsize(n) == IF n < 0 THEN 0 ELSE n

\* ------------------------------------------------------------------ AST nodes
NBool(b) == [k |-> "Bool", b |-> b]
NNumber(n) == [k |-> "Number", n |-> n]
NVec4(v) == [k |-> "Vec4", v |-> v]
NStr(s) == [k |-> "Str", s |-> s]
NList(elements) == [k |-> "List", elements |-> elements]
NRange(min, inclusive, max) == [k |-> "Range", min |-> min, inclusive |-> inclusive, max |-> max]
NMap(entries) == [k |-> "Map", entries |-> entries]
NIndex(id, expression) == [k |-> "Index", id |-> id, expression |-> expression]
NId(id) == [k |-> "Id", id |-> id]
NBlock(block) == [k |-> "Block", block |-> block]
NExpressions(expressions) == [k |-> "Expressions", expressions |-> expressions]
NFunction(args, body) == [k |-> "Function", f |-> [args |-> args, body |-> body]]
NCall(function, args) == [k |-> "Call", function |-> function, args |-> args]
NAssign(id, expression, glob) == [k |-> "Assign", id |-> id, expression |-> expression, global |-> glob]
NMultiAssign(ids, expressions, glob) ==
    [k |-> "MultiAssign", ids |-> ids, expressions |-> expressions, global |-> glob]
NOp(op, lhs, rhs) == [k |-> "Op", op |-> op, lhs |-> lhs, rhs |-> rhs]
NIf(condition, then_node, else_if_condition, else_if_node, else_node) ==
    [k |-> "If", condition |-> condition, then_node |-> then_node,
     else_if_condition |-> else_if_condition, else_if_node |-> else_if_node,
     else_node |-> else_node]
NFor(args, ranges, condition, body) ==
    [k |-> "For", f |-> [args |-> args, ranges |-> ranges, condition |-> condition, body |-> body]]

\* ------------------------------------------------------------------ interpreter state
\* What a read of return_stack.value() yields on a frame that does not hold
\* exactly one value: the contract leaves it undefined, so a run is given one
\* of the outcomes a build can produce: a panic, or some value.
UndefinedOutcomes == {[t |-> "Panic"], Empty, Number(0)}

NewCallStack == [frames |-> <<>>, staging |-> NoBindings]

Enter(g, b, cs, rs, u) ==
    [global |-> g, builtins |-> b, cs |-> cs, rs |-> rs, res |-> "ok", msg |-> <<>>,
     v |-> Empty, log |-> <<>>, u |-> u]

\* runtime_error!
Err(st, m) == [st EXCEPT !.res = "err", !.msg = <<m>>]
\* runtime_error! with formatted arguments
ErrWith(st, m, details) == [st EXCEPT !.res = "err", !.msg = <<m>> \o details]
\* a panic (unwrap, expect, assertion)
Panic(st, m) == [st EXCEPT !.res = "abort", !.msg = <<m>>]
\* instrumentation: an observation of the run
Note(st, e) == [st EXCEPT !.log = Append(@, e)]

\* ------------------------------------------------------------------ return stack
Top(st) == st.rs[Len(st.rs)]
start_frame(st) == [st EXCEPT !.rs = Append(@, <<>>)]
push(st, v) ==
    IF Len(st.rs) = 0 THEN Panic(st, "push without frame")
    ELSE [st EXCEPT !.rs[Len(st.rs)] = Append(@, v)]
pop_frame(st) ==
    IF Len(st.rs) = 0 THEN Panic(st, "over-pop")
    ELSE [st EXCEPT !.rs = SubSeq(@, 1, Len(@) - 1)]
pop_frame_and_keep_results(st) ==
    IF Len(st.rs) < 2 THEN Panic(st, "over-pop")
    ELSE [st EXCEPT !.rs = Append(SubSeq(@, 1, Len(@) - 2), @[Len(@) - 1] \o @[Len(@)])]
values(st) == IF Len(st.rs) = 0 THEN <<>> ELSE Top(st)
value_count(st) == Len(values(st))
\* value(): the result is left in st.v
value(st) ==
    IF value_count(st) = 1 THEN [st EXCEPT !.v = Top(st)[1]]
    ELSE IF st.u.t = "Panic" THEN Panic(Note(st, [ev |-> "undefined_value", n |-> value_count(st)]), "value")
    ELSE [Note(st, [ev |-> "undefined_value", n |-> value_count(st)]) EXCEPT !.v = st.u]

\* ------------------------------------------------------------------ call stack
frame(st) == Len(st.cs.frames)
cs_push(st, id, v) == [st EXCEPT !.cs.staging = Insert(@, id, v)]
cs_commit(st) == [st EXCEPT !.cs = [frames |-> Append(@.frames, @.staging), staging |-> NoBindings]]
cs_cancel(st) == [st EXCEPT !.cs.staging = NoBindings]
\* a pop_frame that leaves the frame where it is
cs_pop_frame_skipped(st) == st

cs_pop_frame(st) ==
    IF frame(st) = 0 THEN Panic(st, "call stack over-pop")
    ELSE [st EXCEPT !.cs.frames = SubSeq(@, 1, Len(@) - 1)]
cs_get(st, id) ==
    IF frame(st) > 0 /\ id \in DOMAIN st.cs.frames[frame(st)]
    THEN Some(st.cs.frames[frame(st)][id]) ELSE None
cs_extend(st, id, v) == [st EXCEPT !.cs.frames[frame(st)] = Insert(@, id, v)]

\* ------------------------------------------------------------------ scopes
\* a set_value that forgets the top-level case: nothing is stored at frame() == 0
set_value_without_top_level(st, id, v, glob) ==
    IF glob THEN [st EXCEPT !.global = Insert(@, id, v)]
    ELSE IF frame(st) > 0 THEN cs_extend(st, id, v)
    ELSE st

\* a set_value that stores every assignment in the global scope
set_value_always_global(st, id, v, glob) == [st EXCEPT !.global = Insert(@, id, v)]

set_value(st, id, v, glob) ==
    IF frame(st) = 0 \/ glob
    THEN [st EXCEPT !.global = Insert(@, id, v)]
    ELSE cs_extend(st, id, v)

RECURSIVE MapLookup(_, _, _)
\* try_fold over lookup_id[1..]
MapLookup(v, lookup_id, i) ==
    IF i > Len(lookup_id) THEN Some(v)
    ELSE IF v.t = "Map" /\ lookup_id[i] \in DOMAIN v.m
         THEN MapLookup(v.m[lookup_id[i]], lookup_id, i + 1)
         ELSE None

value_or_map_lookup(opt, lookup_id) ==
    IF Len(lookup_id) = 1 THEN opt
    ELSE IF opt # None THEN MapLookup(opt[1], lookup_id, 2)
    ELSE None

global_get(st, id) == IF id \in DOMAIN st.global THEN Some(st.global[id]) ELSE None

\* a get_value that resolves in the global scope before the top call frame
get_value_global_first(st, lookup_id) ==
    LET glob == value_or_map_lookup(global_get(st, lookup_id[1]), lookup_id)
    IN IF glob # None THEN glob
       ELSE IF frame(st) > 0 THEN value_or_map_lookup(cs_get(st, lookup_id[1]), lookup_id)
       ELSE None

get_value(st, lookup_id) ==
    LET local == IF frame(st) > 0
                 THEN value_or_map_lookup(cs_get(st, lookup_id[1]), lookup_id)
                 ELSE None
    IN IF local # None THEN local
       ELSE value_or_map_lookup(global_get(st, lookup_id[1]), lookup_id)

\* ------------------------------------------------------------------ external registry
\* Host functions are supplied by the embedder; these two stand for a host
\* function that succeeds and one that reports an error.
HostFns == {"count", "fail"}
ApplyHost(tag, args) ==
    IF tag = "count" THEN [ok |-> TRUE, v |-> Number(Len(args))]
    ELSE [ok |-> FALSE, e |-> "host error"]

BFunction(tag) == [t |-> "Function", f |-> tag]
BMap(m) == [t |-> "Map", m |-> m]

\* BuiltinMap::get_entry_mut: the index of the first entry named `name`, or 0
get_entry_mut(bm, name) ==
    IF \E i \in 1..Len(bm) : bm[i][1] = name
    THEN CHOOSE i \in 1..Len(bm) : bm[i][1] = name /\ \A j \in 1..(i - 1) : bm[j][1] # name
    ELSE 0

\* BuiltinMap::insert without the search for an existing entry
insert_always_pushes(bm, name, bv) == Append(bm, <<name, bv>>)

\* BuiltinMap::insert
builtin_insert(bm, name, bv) ==
    IF get_entry_mut(bm, name) # 0
    THEN [bm EXCEPT ![get_entry_mut(bm, name)] = <<name, bv>>]
    ELSE Append(bm, <<name, bv>>)

add_fn(bm, name, tag) == builtin_insert(bm, name, BFunction(tag))

\* BuiltinMap::add_map: an empty sub-map is inserted at `name`
add_map(bm, name) == builtin_insert(bm, name, BMap(<<>>))

RECURSIVE builtin_get_mut(_, _, _)
\* BuiltinMap::get_mut on lookup_id[i..]
builtin_get_mut(bm, lookup_id, i) ==
    LET e == get_entry_mut(bm, lookup_id[i])
    IN IF e = 0 THEN None
       ELSE IF i = Len(lookup_id) THEN Some(bm[e][2])
       ELSE IF bm[e][2].t = "Map" THEN builtin_get_mut(bm[e][2].m, lookup_id, i + 1)
       ELSE None

\* ------------------------------------------------------------------ operators

\* Floating point numbers are exact ratios <<n, d>>: d > 0 and n, d in lowest
\* terms for the finite ones, <<1, 0>> and <<-1, 0>> for the infinities and
\* <<0, 0>> for NaN; rounding and the sign of zero are left out.
RECURSIVE Gcd(_, _)
Gcd(a, b) == IF b = 0 THEN a ELSE Gcd(b, a % b)

\* a Number as a ratio, and back: a Number that is an integer has no field d
as_float(a) == <<a.n, IF "d" \in DOMAIN a THEN a.d ELSE 1>>
from_float(x) == IF x[2] = 1 THEN Number(x[1]) ELSE [t |-> "Number", n |-> x[1], d |-> x[2]]

\* +, -, *, /, % (the remainder has the sign of the dividend), < and <= on two floats
arithmetic(op, x, y) ==
    LET Abs(n) == IF n < 0 THEN 0 - n ELSE n
        Sign(n) == IF n < 0 THEN 0 - 1 ELSE IF n > 0 THEN 1 ELSE 0
        NaN == <<0, 0>>
        Ratio(n, d) ==
            IF d = 0 THEN <<Sign(n), 0>>
            ELSE <<Sign(d) * Sign(n) * (Abs(n) \div Gcd(Abs(n), Abs(d))),
                   Abs(d) \div Gcd(Abs(n), Abs(d))>>
        add(a, b) ==
            IF a[2] = 0 /\ b[2] = 0 THEN (IF a = b THEN a ELSE NaN)
            ELSE Ratio(a[1] * b[2] + b[1] * a[2], a[2] * b[2])
        neg(a) == <<0 - a[1], a[2]>>
        mul(a, b) == Ratio(a[1] * b[1], a[2] * b[2])
        recip(a) == IF a[1] < 0 THEN <<0 - a[2], 0 - a[1]>> ELSE <<a[2], a[1]>>
        div(a, b) == mul(a, recip(b))
        \* rounded towards zero
        trunc(a) == <<Sign(a[1]) * (Abs(a[1]) \div a[2]), 1>>
        lt(a, b) ==
            IF a = NaN \/ b = NaN THEN FALSE
            ELSE IF a[2] = 0 \/ b[2] = 0
            THEN (IF a[2] = 0 THEN a[1] ELSE 0) < (IF b[2] = 0 THEN b[1] ELSE 0)
            ELSE a[1] * b[2] < b[1] * a[2]
    IN CASE op = "Add" -> add(x, y)
         [] op = "Subtract" -> add(x, neg(y))
         [] op = "Multiply" -> mul(x, y)
         [] op = "Divide" -> div(x, y)
         [] op = "Modulo" ->
              IF x[2] = 0 \/ y[1] = 0 THEN NaN
              ELSE IF y[2] = 0 THEN x
              ELSE add(x, neg(mul(trunc(div(x, y)), y)))
         [] op = "Less" -> lt(x, y)
         [] op = "LessOrEqual" -> lt(x, y) \/ (x = y /\ x # NaN)

ArithmeticOps == {"Add", "Subtract", "Multiply", "Divide", "Modulo"}

\* Vec4 op Vec4, componentwise; a Number operand is broadcast to the four lanes
splat(x) == <<x, x, x, x>>
vec4_op(op, a, b) == Vec4([i \in 1..4 |-> arithmetic(op, a[i], b[i])])

\* a binary_op that has a result for every pair of operands
binary_op_without_error(op, a, b) ==
    IF a.t = "Number" /\ b.t = "Number" THEN
        CASE op \in ArithmeticOps -> <<TRUE, from_float(arithmetic(op, as_float(a), as_float(b)))>>
          [] op \in {"Less", "Greater"} ->
               <<TRUE, Bool(arithmetic("Less", as_float(IF op = "Less" THEN a ELSE b),
                                       as_float(IF op = "Less" THEN b ELSE a)))>>
          [] op \in {"LessOrEqual", "GreaterOrEqual"} ->
               <<TRUE, Bool(arithmetic("LessOrEqual", as_float(IF op = "LessOrEqual" THEN a ELSE b),
                                       as_float(IF op = "LessOrEqual" THEN b ELSE a)))>>
          [] OTHER -> <<TRUE, Bool((a = b) = (op # "NotEqual"))>>
    ELSE IF op = "Add" /\ a.t = "List" /\ b.t = "List" THEN <<TRUE, List(a.l \o b.l)>>
    ELSE IF op = "Add" /\ a.t = "Map" /\ b.t = "Map" THEN <<TRUE, Map(Extend(a.m, b.m))>>
    ELSE <<TRUE, Bool((a = b) = (op # "NotEqual"))>>

\* Node::Op, the match on (op, a, b): <<TRUE, value>> or <<FALSE>> for binary_op_error!
binary_op(op, a, b) ==
    IF op = "Equal" THEN <<TRUE, Bool(a = b)>>
    ELSE IF op = "NotEqual" THEN <<TRUE, Bool(a # b)>>
    ELSE IF a.t = "Number" /\ b.t = "Number" THEN
        CASE op \in ArithmeticOps -> <<TRUE, from_float(arithmetic(op, as_float(a), as_float(b)))>>
          [] op = "Less" -> <<TRUE, Bool(arithmetic("Less", as_float(a), as_float(b)))>>
          [] op = "LessOrEqual" -> <<TRUE, Bool(arithmetic("LessOrEqual", as_float(a), as_float(b)))>>
          [] op = "Greater" -> <<TRUE, Bool(arithmetic("Less", as_float(b), as_float(a)))>>
          [] op = "GreaterOrEqual" -> <<TRUE, Bool(arithmetic("LessOrEqual", as_float(b), as_float(a)))>>
          [] OTHER -> <<FALSE>>
    ELSE IF a.t = "Vec4" /\ b.t = "Vec4" THEN
        IF op \in ArithmeticOps THEN <<TRUE, vec4_op(op, a.v, b.v)>> ELSE <<FALSE>>
    ELSE IF a.t = "Number" /\ b.t = "Vec4" THEN
        IF op \in ArithmeticOps THEN <<TRUE, vec4_op(op, splat(as_float(a)), b.v)>> ELSE <<FALSE>>
    ELSE IF a.t = "Vec4" /\ b.t = "Number" THEN
        IF op \in ArithmeticOps THEN <<TRUE, vec4_op(op, a.v, splat(as_float(b)))>> ELSE <<FALSE>>
    ELSE IF a.t = "Bool" /\ b.t = "Bool" THEN
        CASE op = "And" -> <<TRUE, Bool(a.b /\ b.b)>>
          [] op = "Or" -> <<TRUE, Bool(a.b \/ b.b)>>
          [] OTHER -> <<FALSE>>
    ELSE IF a.t = "List" /\ b.t = "List" THEN
        IF op = "Add" THEN <<TRUE, List(a.l \o b.l)>> ELSE <<FALSE>>
    ELSE IF a.t = "Map" /\ b.t = "Map" THEN
        IF op = "Add" THEN <<TRUE, Map(Extend(a.m, b.m))>> ELSE <<FALSE>>
    ELSE <<FALSE>>

\* a range_value that forgets to compare the bounds
range_value_unchecked(st, min, inclusive, max) ==
    IF min.t = "Number" /\ max.t = "Number" THEN
        push(st, Range(AsIsize(min.n), IF inclusive THEN AsIsize(max.n) + 1 ELSE AsIsize(max.n)))
    ELSE Err(st, "Expected numbers for range bounds")

\* Node::Range, the match on the two bounds
range_value(st, min, inclusive, max) ==
    IF min.t = "Number" /\ max.t = "Number" THEN
        LET lo == AsIsize(min.n)
            hi == IF inclusive THEN AsIsize(max.n) + 1 ELSE AsIsize(max.n)
        IN IF lo <= hi THEN push(st, Range(lo, hi))
           ELSE Err(st, "Invalid range")
    ELSE Err(st, "Expected numbers for range bounds")

\* ValueIterator::new on a List or a Range: the values it yields
iterator_values(v) ==
    IF v.t = "List" THEN v.l
    ELSE [i \in 1..(v.max - v.min) |-> Number(v.min + i - 1)]

RECURSIVE push_all(_, _, _)
push_all(st, vs, i) == IF i > Len(vs) THEN st ELSE push_all(push(st, vs[i]), vs, i + 1)

\* an expand_range that also pushes the upper bound: for i in min..=max
expand_range_inclusive(st, min, max) ==
    push_all(st, [i \in 1..(max - min + 1) |-> Number(min + i - 1)], 1)

\* the Range arm pushing the range back as it found it
expand_range_unexpanded(st, min, max) == push(st, Range(min, max))

\* evaluate_and_expand, the Range arm: for i in min..max { push(Number(i)) }
expand_range(st, min, max) == push_all(st, [i \in 1..(max - min) |-> Number(min + i - 1)], 1)

\* evaluate_and_capture, the closure that rejects unexpanded values
invalid_in_capture(vs) == \E i \in 1..Len(vs) : vs[i].t \in {"For", "Range"}

\* a capture_collapse that leaves several values as they are instead of wrapping them
capture_collapse_unwrapped(st) ==
    IF value_count(st) = 0 THEN push(pop_frame(st), Empty)
    ELSE pop_frame_and_keep_results(st)

\* evaluate_and_capture, the match on value_count() of the expanded frame
capture_collapse(st) ==
    CASE value_count(st) = 0 -> push(pop_frame(st), Empty)
      [] value_count(st) = 1 -> pop_frame_and_keep_results(st)
      [] OTHER -> IF invalid_in_capture(values(st))
                  THEN Err(st, "Invalid value found in list capture")
                  ELSE push(pop_frame(st), List(values(st)))

\* evaluate_and_expand, the match on loop_value_count after run_for_loop
expand_loop_results(st) ==
    IF value_count(st) = 0 THEN push(pop_frame(st), Empty)
    ELSE pop_frame_and_keep_results(st)

\* an expected_args that takes the implicit self off every call, dotted or not
expected_args_always_self(id, f) ==
    IF Len(f.args) > 0 /\ f.args[1] = "self" THEN Len(f.args) - 1 ELSE Len(f.args)

\* call_function: the expected argument count
expected_args(id, f) ==
    IF Len(id) > 1 /\ Len(f.args) > 0 /\ f.args[1] = "self"
    THEN Len(f.args) - 1 ELSE Len(f.args)

\* the value is read and its frame is left on the return stack
take_value_without_pop(st) == value(st)

\* `let v = self.return_stack.value().clone(); self.return_stack.pop_frame();`
take_value(st) == LET s == value(st) IN IF s.res = "abort" THEN s ELSE pop_frame(s)

Min(S) == CHOOSE x \in S : \A y \in S : x <= y

\* ------------------------------------------------------------------ the evaluator
\* self.method(args): the methods of Runtime call one another through self
RECURSIVE self(_, _, _)
RECURSIVE block_loop(_, _, _), expressions_loop(_, _, _), map_entries(_, _, _, _),
          multi_assign_loop(_, _, _), set_values(_, _, _, _, _),
          for_ranges(_, _, _, _), for_iterations(_, _, _, _, _),
          bind_values(_, _, _, _, _), bind_list(_, _, _, _, _),
          call_arguments(_, _, _, _, _)

\* evaluate(node) followed by value() and pop_frame(): the value is left in .v
evaluate_value(st, node) ==
    LET s == self(st, "evaluate", <<node>>) IN IF s.res = "ok" THEN take_value(s) ELSE s

\* evaluate_and_capture(node) followed by value() and pop_frame()
capture_value(st, node) ==
    LET s == self(st, "evaluate_and_capture", <<node>>)
    IN IF s.res = "ok" THEN take_value(s) ELSE s

block_loop(st, block, i) ==
    IF i > Len(block) THEN st
    ELSE IF i < Len(block) THEN
        LET s == self(st, "evaluate_and_expand", <<block[i]>>)
        IN IF s.res = "ok" THEN block_loop(pop_frame(s), block, i + 1) ELSE s
    ELSE
        LET s == self(st, "evaluate_and_capture", <<block[i]>>)
        IN IF s.res = "ok" THEN block_loop(pop_frame_and_keep_results(s), block, i + 1) ELSE s

evaluate_block(st, block) == block_loop(start_frame(st), block, 1)

expressions_loop(st, expressions, i) ==
    IF i > Len(expressions) THEN st
    ELSE LET s == self(st, "evaluate_and_capture", <<expressions[i]>>)
         IN IF s.res = "ok" THEN expressions_loop(pop_frame_and_keep_results(s), expressions, i + 1)
            ELSE s

evaluate_expressions(st, expressions) == expressions_loop(start_frame(st), expressions, 1)

evaluate_and_capture(st, expression) ==
    LET s0 == start_frame(st)
        s1 == self(s0, "evaluate_and_expand", <<expression>>)
        s2 == capture_collapse(s1)
    IN IF s1.res # "ok" THEN s1
       ELSE IF s2.res # "ok" THEN Note(s2, [ev |-> "capture_err", vals |-> values(s1)])
       ELSE Note(s2, [ev |-> "capture", vals |-> values(s1), frame |-> values(s2),
                      base |-> Len(st.rs), depth |-> Len(s2.rs)])

evaluate_and_expand(st, expression) ==
    LET s0 == start_frame(st)
        s1 == self(s0, "evaluate", <<expression>>)
        child == values(s1)
        v == child[1]
        s2 == pop_frame(s1)
        looped == self(s2, "run_for_loop", <<v>>)
        s3 == IF Len(child) # 1 THEN pop_frame_and_keep_results(s1)
              ELSE CASE v.t = "For" -> IF looped.res = "ok" THEN expand_loop_results(looped) ELSE looped
                     [] v.t = "Range" -> expand_range(s2, v.min, v.max)
                     [] v.t = "Empty" -> s2
                     [] OTHER -> push(s2, v)
    IN IF s1.res # "ok" THEN s1
       ELSE IF s3.res # "ok" THEN s3
       ELSE Note(s3, [ev |-> "expand", child |-> child,
                      loop |-> IF Len(child) = 1 /\ v.t = "For" THEN values(looped) ELSE <<>>,
                      frame |-> values(s3), base |-> Len(st.rs), depth |-> Len(s3.rs)])

map_entries(st, entries, i, map) ==
    IF i > Len(entries) THEN push(st, Map(map))
    ELSE LET s == capture_value(st, entries[i][2])
         IN IF s.res = "ok" THEN map_entries(s, entries, i + 1, Insert(map, entries[i][1], s.v))
            ELSE s

\* a MultiAssign that leaves the ids beyond the values as they were
set_values_without_padding(st, ids, i, vs, glob) ==
    IF i > Len(ids) \/ i > Len(vs) THEN st
    ELSE set_values(set_value(st, ids[i], vs[i], glob), ids, i + 1, vs, glob)

\* for id in ids[i..] { set_value(id, vs.next().unwrap_or(&Empty), global) }
set_values(st, ids, i, vs, glob) ==
    IF i > Len(ids) THEN st
    ELSE set_values(set_value(st, ids[i], IF i <= Len(vs) THEN vs[i] ELSE Empty, glob),
                    ids, i + 1, vs, glob)

multi_assign_loop(st, expressions, i) ==
    IF i > Len(expressions) THEN st
    ELSE LET s == self(st, "evaluate_and_capture", <<expressions[i]>>)
         IN IF s.res = "ok" THEN multi_assign_loop(pop_frame_and_keep_results(s), expressions, i + 1)
            ELSE s

\* ------------------------------------------------------------------ for loops
for_ranges(st, ranges, i, its) ==
    IF i > Len(ranges) THEN [st EXCEPT !.v = its]
    ELSE LET s == evaluate_value(st, ranges[i])
         IN IF s.res # "ok" THEN s
            ELSE IF s.v.t \in {"List", "Range"}
                 THEN for_ranges(s, ranges, i + 1, Append(its, iterator_values(s.v)))
                 ELSE Err(s, "Expected iterable range in for statement")

\* for list_value in a.iter() { match arg_iter.next() { Some(arg) => set_value, None => break } }
bind_list(st, args, l, i, a) ==
    IF i > Len(l) \/ a + i > Len(args) THEN st
    ELSE bind_list(set_value(st, args[a + i], l[i], FALSE), args, l, i + 1, a)

\* for value in values.iter() { ... }: `a` loop arguments are already taken from
\* arg_iter; the number taken in the end is left in .v
bind_values(st, f, vals, j, a) ==
    IF j > Len(vals) THEN [st EXCEPT !.v = a]
    ELSE IF vals[j].t = "List" /\ Len(f.ranges) = 1
         THEN bind_values(bind_list(st, f.args, vals[j].l, 1, a), f, vals, j + 1,
                          a + Min({Len(vals[j].l), Len(f.args) - a}))
    ELSE IF a + 1 > Len(f.args) THEN Panic(st, "For loops have at least one argument")
    ELSE bind_values(set_value(st, f.args[a + 1], vals[j], FALSE), f, vals, j + 1, a + 1)

\* the binding of the loop arguments for one step of the multi-iterator
bind_loop_args(st, f, vals) ==
    LET s == bind_values(st, f, vals, 1, 0)
    IN IF s.res = "ok" THEN set_values(s, f.args, s.v + 1, <<>>, FALSE) ELSE s

\* one pass of `for values in iter`; it.n steps are left from step i on, and
\* trace records what each step so far did
\* what the binding step of one iteration did: the values bound to the loop arguments
NoteBind(s1, f, it, vals) ==
    Note(s1, [ev |-> "bind", loop |-> it.loop, args |-> f.args, vals |-> vals,
              single |-> Len(f.ranges) = 1, res |-> s1.res,
              bound |-> [j \in 1..Len(f.args) |-> get_value(s1, <<f.args[j]>>)]])

\* what the whole loop did: per iteration the condition and the values kept
NoteFor(s2, f, loop, lens) ==
    Note(s2, [ev |-> "for", loop |-> loop, f |-> f, iterable |-> TRUE,
              res |-> s2.res, msg |-> s2.msg, lens |-> lens,
              trace |-> IF s2.res = "ok" THEN s2.v ELSE <<>>,
              results |-> IF s2.res = "ok" THEN values(s2) ELSE <<>>])

\* one pass of `for values in iter`; it.n steps are left from step i on, and
\* trace records what each step so far did
for_iterations(st, f, it, i, trace) ==
    IF i > it.n THEN [st EXCEPT !.v = trace]
    ELSE
      LET vals == [j \in 1..Len(it.vals) |-> it.vals[j][i]]
          s1 == NoteBind(bind_loop_args(st, f, vals), f, it, vals)
          s2 == IF f.condition # None THEN evaluate_value(s1, f.condition[1]) ELSE s1
          cond == IF f.condition = None THEN "none"
                  ELSE IF s2.v.t # "Bool" THEN "other"
                  ELSE IF s2.v.b THEN "true" ELSE "false"
          s3 == self(Note(s2, [ev |-> "body", loop |-> it.loop]),
                     "evaluate_and_capture", <<f.body>>)
          s4 == pop_frame_and_keep_results(s3)
      IN IF s1.res # "ok" THEN s1
         ELSE IF s2.res # "ok" THEN s2
         ELSE IF cond = "other" THEN Err(s2, "Expected bool in for statement condition")
         ELSE IF cond = "false"
              THEN for_iterations(s2, f, it, i + 1, Append(trace, [cond |-> cond, kept |-> <<>>]))
         ELSE IF s3.res # "ok" THEN s3
         ELSE for_iterations(s4, f, it, i + 1,
                             Append(trace, [cond |-> cond,
                                            kept |-> SubSeq(values(s4), value_count(s2) + 1,
                                                            value_count(s4))]))

run_for_loop(st, for_statement) ==
    LET f == for_statement.f
        s0 == Note(start_frame(st), [ev |-> "for_begin", f |-> f])
        loop == Len(s0.log)
        s1 == for_ranges(s0, f.ranges, 1, <<>>)
        its == s1.v
        lens == [j \in 1..Len(its) |-> Len(its[j])]
        it == [vals |-> its, loop |-> loop, n |-> Min({lens[j] : j \in 1..Len(lens)})]
    IN IF s1.res # "ok"
       THEN Note(s1, [ev |-> "for", loop |-> loop, f |-> f, iterable |-> FALSE,
                      res |-> s1.res, msg |-> s1.msg])
       ELSE NoteFor(for_iterations(s1, f, it, 1, <<>>), f, loop, lens)

\* ------------------------------------------------------------------ indexing
NoteIndex(s, id, index, maybe_list) ==
    Note(s, [ev |-> "index", id |-> id, index |-> index, list |-> maybe_list,
             res |-> s.res, msg |-> s.msg, frame |-> values(s),
             after |-> [global |-> s.global, cs |-> s.cs]])

list_index(st, id, expression) ==
    LET s1 == evaluate_value(st, expression)
        index == s1.v
        maybe_list == get_value(s1, id)
        elements == maybe_list[1].l
    IN IF s1.res # "ok" THEN s1
       ELSE NoteIndex(
            IF maybe_list = None THEN Err(s1, "Value not found")
            ELSE IF maybe_list[1].t # "List" THEN Err(s1, "Indexing is only supported for Lists")
            ELSE IF index.t = "Number" THEN
                 IF AsUsize(index.n) < Len(elements)
                 THEN push(s1, elements[AsUsize(index.n) + 1])
                 ELSE Err(s1, "Index out of bounds")
            ELSE IF index.t = "Range" THEN
                 IF index.min < 0 \/ index.max < 0
                 THEN Err(s1, "Indexing with negative indices isn't supported")
                 ELSE IF AsUsize(index.min) >= Len(elements) \/ AsUsize(index.max) >= Len(elements)
                 THEN Err(s1, "Index out of bounds")
                 ELSE push(s1, List(SubSeq(elements, AsUsize(index.min) + 1, AsUsize(index.max))))
            ELSE Err(s1, "Indexing is only supported with number values or ranges"),
            id, index, maybe_list)

\* ------------------------------------------------------------------ calls
\* call_function: the name the function is bound to in the new frame
function_name(id) == id[1]

\* call_function: the implicit self of a map function is staged
stage_self(st, id, f) ==
    IF Len(id) > 1 /\ Len(f.args) > 0 /\ f.args[1] = "self"
    THEN LET map == get_value(st, SubSeq(id, 1, Len(id) - 1))
         IN IF map = None THEN Panic(st, "unwrap") ELSE cs_push(st, f.args[1], map[1])
    ELSE st

\* for (name, arg) in f.args.iter().zip(args.iter())
call_arguments(st, names, args, i, at) ==
    IF i > Len(names) \/ i > Len(args) THEN st
    ELSE
      LET r == self(st, "evaluate_and_capture", <<args[i]>>)
          r1 == take_value(IF r.res = "err"
                           THEN Note(r, [ev |-> "argfail", at |-> at, msg |-> r.msg]) ELSE r)
          r2 == cs_push(r1, names[i], r1.v)
      IN IF r.res = "abort" THEN r
         ELSE IF r1.res = "abort" THEN r1
         ELSE IF r.res = "err" THEN cs_cancel(r2)
         ELSE call_arguments(r2, names, args, i + 1, at)

\* the frame a call has committed, as the body finds it
NoteEnter(st, s4, id, f, args, at) ==
    Note(s4, [ev |-> "enter", at |-> at, id |-> id, f |-> f, nargs |-> Len(args), args |-> args,
              receiver |-> IF Len(id) > 1 THEN get_value(st, SubSeq(id, 1, Len(id) - 1))
                           ELSE None,
              frame |-> s4.cs.frames[frame(s4)], depth |-> frame(s4)])

user_call(st, id, f, args, at) ==
    IF Len(args) # expected_args(id, f)
    THEN ErrWith(st, "Incorrect argument count", <<expected_args(id, f), Len(args)>>)
    ELSE
      LET s2 == stage_self(cs_push(st, function_name(id), Function(f)), id, f)
          s3 == call_arguments(s2, f.args, args, 1, at)
          s5 == evaluate_block(NoteEnter(st, cs_commit(s3), id, f, args, at), f.body)
      IN IF s2.res # "ok" THEN s2
         ELSE IF s3.res # "ok" THEN s3
         ELSE IF s5.res = "abort" THEN s5
         ELSE cs_pop_frame(pop_frame_and_keep_results(s5))

builtin_call(st, id, args) ==
    LET s1 == evaluate_expressions(st, args)
        found == builtin_get_mut(s1.builtins, id, 1)
        r == ApplyHost(found[1].f, values(s1))
        s2 == pop_frame(Note(s1, [ev |-> "host", at |-> Len(st.log), f |-> found[1].f,
                                  args |-> values(s1)]))
    IN IF s1.res # "ok" THEN s1
       ELSE IF found = None THEN Err(pop_frame(s1), "Function not found")
       ELSE IF found[1].t # "Function" THEN Err(pop_frame(s1), "Expected function for")
       ELSE IF r.ok THEN push(s2, r.v)
       ELSE Err(s2, r.e)

\* what a call did: its outcome and the call stack before and after it
NoteCall(st, s, id, args, at, maybe_function) ==
    Note(s, [ev |-> "call", at |-> at, id |-> id, nargs |-> Len(args),
             callee |-> maybe_function, cs0 |-> st.cs, cs1 |-> s.cs,
             global0 |-> st.global, builtins0 |-> st.builtins,
             res |-> s.res, msg |-> s.msg])

call_function(st, id, args) ==
    LET s0 == Note(st, [ev |-> "begin", id |-> id])
        at == Len(s0.log)
        maybe_function == get_value(s0, id)
    IN NoteCall(st,
                IF maybe_function # None /\ maybe_function[1].t # "Function"
                THEN Err(s0, "Expected function for value")
                ELSE IF maybe_function # None
                THEN user_call(s0, id, maybe_function[1].f, args, at)
                ELSE builtin_call(s0, id, args),
                id, args, at, maybe_function)

\* ------------------------------------------------------------------ evaluate
\* what an Id node resolved to, and the scopes it was resolved in
NoteOp(st, s, op, a, b) ==
    Note(s, [ev |-> "op", op |-> op, a |-> a, b |-> b,
             res |-> s.res, msg |-> s.msg, frame |-> values(s),
             before |-> [global |-> st.global, cs |-> st.cs],
             after |-> [global |-> s.global, cs |-> s.cs]])

NoteMultiAssign(s, node, captured) ==
    Note(s, [ev |-> "multi_assign", ids |-> node.ids, rhs |-> Len(node.expressions),
             captured |-> captured, res |-> s.res,
             after |-> [global |-> s.global, cs |-> s.cs]])

NoteId(s, id) ==
    Note(s, [ev |-> "id", id |-> id, cs |-> s.cs, global |-> s.global,
             res |-> s.res, msg |-> s.msg, frame |-> values(s)])

\* what an Assign stored: the scopes before and after set_value
NoteAssign(s1, s2, id, glob) ==
    Note(s2, [ev |-> "assign", id |-> id, global |-> glob, v |-> s1.v,
              cs0 |-> s1.cs, cs1 |-> s2.cs, global0 |-> s1.global, global1 |-> s2.global])

\* instrumentation: st is the state evaluate(node) was entered in, s the state
\* it returned; below tells whether the frames under the node's are as they were
NoteEval(st, node, s) ==
    Note(s, [ev |-> "eval", k |-> node.k, res |-> s.res,
             base |-> Len(st.rs), depth |-> Len(s.rs),
             below |-> Len(s.rs) >= Len(st.rs) /\ SubSeq(s.rs, 1, Len(st.rs)) = st.rs,
             cs0 |-> frame(st), cs1 |-> frame(s), top |-> values(s)])

evaluate(st, node) ==
    LET s0 == start_frame(st)
        k == node.k
    IN NoteEval(st, node,
       CASE k = "Bool" -> push(s0, Bool(node.b))
         [] k = "Number" -> push(s0, Number(node.n))
         [] k = "Vec4" -> push(s0, Vec4(node.v))
         [] k = "Str" -> push(s0, Str(node.s))
         [] k = "List" ->
              LET s1 == evaluate_expressions(s0, node.elements)
                  vs == values(s1)
              IN IF s1.res # "ok" THEN s1
                 ELSE IF Len(vs) = 1
                      THEN IF vs[1].t = "List" THEN push(pop_frame(s1), vs[1])
                           ELSE push(pop_frame(s1), List(<<vs[1]>>))
                      ELSE push(pop_frame(s1), List(vs))
         [] k = "Range" ->
              LET s1 == evaluate_value(s0, node.min)
                  s2 == evaluate_value(s1, node.max)
              IN IF s1.res # "ok" THEN s1
                 ELSE IF s2.res # "ok" THEN s2
                 ELSE LET s3 == range_value(s2, s1.v, node.inclusive, s2.v)
                      IN Note(s3, [ev |-> "range", min |-> s1.v, max |-> s2.v,
                                   inclusive |-> node.inclusive, res |-> s3.res,
                                   frame |-> values(s3)])
         [] k = "Map" -> map_entries(s0, node.entries, 1, NoBindings)
         [] k = "Index" -> list_index(s0, node.id, node.expression)
         [] k = "Id" ->
              LET got == get_value(s0, node.id)
              IN NoteId(IF got = None THEN Err(s0, "Value not found") ELSE push(s0, got[1]),
                        node.id)
         [] k = "Block" ->
              LET s1 == evaluate_block(s0, node.block)
              IN IF s1.res = "ok" THEN pop_frame_and_keep_results(s1) ELSE s1
         [] k = "Expressions" ->
              LET s1 == evaluate_expressions(s0, node.expressions)
              IN IF s1.res = "ok" THEN pop_frame_and_keep_results(s1) ELSE s1
         [] k = "Function" -> push(s0, Function(node.f))
         [] k = "Call" -> call_function(s0, node.function, node.args)
         [] k = "Assign" ->
              LET s1 == capture_value(s0, node.expression)
              IN IF s1.res # "ok" THEN s1
                 ELSE push(NoteAssign(s1, set_value(s1, node.id, s1.v, node.global),
                                      node.id, node.global), s1.v)
         [] k = "MultiAssign" ->
              IF Len(node.expressions) = 1 THEN
                  LET s1 == self(s0, "evaluate_and_capture", <<node.expressions[1]>>)
                      s2 == value(s1)
                      s3 == pop_frame_and_keep_results(s2)
                  IN IF s1.res # "ok" THEN s1
                     ELSE IF s2.res # "ok" THEN s2
                     ELSE NoteMultiAssign(
                              IF s2.v.t = "List"
                              THEN set_values(s3, node.ids, 1, s2.v.l, node.global)
                              ELSE set_values(s3, node.ids, 1, <<s2.v>>, node.global),
                              node, <<s2.v>>)
              ELSE
                  LET s1 == multi_assign_loop(s0, node.expressions, 1)
                  IN IF s1.res # "ok" THEN s1
                     ELSE IF value_count(s1) = 0 THEN Panic(s1, "unreachable")
                     ELSE NoteMultiAssign(set_values(s1, node.ids, 1, values(s1), node.global),
                                          node, values(s1))
         [] k = "Op" ->
              LET s1 == evaluate_value(s0, node.lhs)
                  s2 == evaluate_value(s1, node.rhs)
                  r == binary_op(node.op, s1.v, s2.v)
              IN IF s1.res # "ok" THEN s1
                 ELSE IF s2.res # "ok" THEN s2
                 ELSE NoteOp(s0, IF r[1] THEN push(s2, r[2])
                             ELSE ErrWith(s2, "Unable to perform operation", <<node.op, s1.v, s2.v>>),
                             node.op, s1.v, s2.v)
         [] k = "If" ->
              LET s1 == evaluate_value(s0, node.condition)
                  s2 == IF node.else_if_condition # None
                        THEN evaluate_value(s1, node.else_if_condition[1]) ELSE s1
                  \* the state after the conditions, and the branch they select
                  checked == IF s1.res # "ok" THEN s1
                             ELSE IF s1.v.t # "Bool" THEN Err(s1, "Expected bool in if statement")
                             ELSE IF s1.v.b \/ s2.res # "ok" THEN (IF s1.v.b THEN s1 ELSE s2)
                             ELSE IF node.else_if_condition # None /\ s2.v.t # "Bool"
                                  THEN Err(s2, "Expected bool in else if statement")
                             ELSE s2
                  branch == IF s1.v.b THEN node.then_node
                            ELSE IF node.else_if_condition # None /\ s2.v.b THEN node.else_if_node
                            ELSE node.else_node
                  s3 == self(checked, "evaluate", <<branch[1]>>)
              IN IF checked.res # "ok" \/ branch = None THEN checked
                 ELSE IF s3.res = "ok" THEN pop_frame_and_keep_results(s3) ELSE s3
         [] k = "For" -> push(s0, For(node.f)))

self(st, method, a) ==
    CASE method = "evaluate" -> evaluate(st, a[1])
      [] method = "evaluate_and_capture" -> evaluate_and_capture(st, a[1])
      [] method = "evaluate_and_expand" -> evaluate_and_expand(st, a[1])
      [] method = "run_for_loop" -> run_for_loop(st, a[1])

\* ------------------------------------------------------------------ run
\* Runtime::run: the interpreter state after the script, the result left in .v
\* match self.return_stack.values() { [] => Empty, [single] => single, list => List }
run_result(s1) ==
    LET vs == values(s1)
    IN IF s1.res # "ok" THEN s1
       ELSE [s1 EXCEPT !.v = CASE Len(vs) = 0 -> Empty
                               [] Len(vs) = 1 -> vs[1]
                               [] OTHER -> List(vs)]

run(st, ast) == run_result(evaluate_block(start_frame(st), ast))

\* ------------------------------------------------------------------ scripts
N(n) == NNumber(n)
I(x) == NId(<<x>>)
Set(x, e) == NAssign(x, e, FALSE)
Lit(ns) == NList([i \in 1..Len(ns) |-> NNumber(ns[i])])

\* x -> x
Identity == NFunction(<<"x">>, <<I("x")>>)
\* n -> if n < 1 then 0 else f(n - 1)
CountDown ==
    NFunction(<<"n">>,
              <<NIf(NOp("Less", I("n"), N(1)), <<N(0)>>, None, None,
                    <<NCall(<<"f">>, <<NOp("Subtract", I("n"), N(1))>>)>>)>>)
\* {x: 10, get: self -> self.x, f: (self, a) -> self, g: (self, a) -> a, h: n -> ...}
Object ==
    NMap(<< <<"x", N(10)>>,
            <<"get", NFunction(<<"self">>, <<NId(<<"self", "x">>)>>)>>,
            <<"f", NFunction(<<"self", "a">>, <<I("self")>>)>>,
            <<"g", NFunction(<<"self", "a">>, <<I("a")>>)>>,
            <<"h", CountDown>> >>)

\* scripts that only define globals: what a session starts with
Definitions ==
    {<<Set("a", N(2))>>, <<Set("a", N(3))>>, <<Set("a", Lit(<<1, 2>>))>>,
     <<Set("a", NBool(TRUE))>>,
     <<Set("f", Identity)>>, <<Set("f", CountDown)>>, <<Set("f", N(2))>>,
     <<Set("m", Object)>>}

RangeScripts ==
    {<<NRange(N(i), inc, N(j))>> : i \in 0..MaxBound, j \in 0..MaxBound, inc \in BOOLEAN}

AssignScripts ==
    {<<I("a")>>, <<NId(<<"m", "x">>)>>, <<NId(<<"m", "y">>)>>, <<NId(<<"m", "x", "y">>)>>,
     <<NId(<<"a", "x">>)>>, <<NOp("Add", I("a"), I("a"))>>,
     <<Set("a", NRange(N(0), FALSE, N(3)))>>,
     <<Set("a", NRange(N(1), FALSE, N(1)))>>,
     <<Set("a", NExpressions(<<N(1), NBool(TRUE)>>))>>,
     <<Set("b", NOp("Add", I("a"), N(1)))>>,
     <<Set("b", I("a")), I("b")>>,
     <<Set("a", Lit(<<1, 2>>)), NOp("Add", I("a"), I("a"))>>,
     <<Set("a", NStr("s"))>>,
     <<Set("a", NExpressions(<<NRange(N(1), FALSE, N(1)), N(1),
                               NExpressions(<<N(1), NBool(TRUE)>>)>>))>>,
     <<NRange(I("a"), FALSE, N(3))>>,
     <<NRange(N(0), TRUE, I("a"))>>,
     <<NMultiAssign(<<"a", "b">>, <<Lit(<<1>>)>>, FALSE)>>,
     <<NIf(NBool(FALSE), <<N(1)>>, None, None, None)>>,
     <<Set("a", NRange(N(0), FALSE, N(1)))>>,
     <<Set("a", NIf(NBool(TRUE), <<NRange(N(0), FALSE, N(3))>>, None, None, None))>>,
     <<Set("a", NMap(<< <<"r", NRange(N(0), FALSE, N(2))>> >>))>>,
     <<Set("a", Lit(<<1, 2, 3>>)),
       NMultiAssign(<<"b", "c">>, <<NIndex(<<"a">>, NRange(N(0), FALSE, N(2)))>>, FALSE)>>,
     <<NOp("Add", NIf(NBool(FALSE), <<N(1)>>, None, None, None), N(1))>>,
     <<NRange(N(0), FALSE, NExpressions(<<N(1), N(2)>>))>>,
     <<NBlock(<<Set("b", N(1)), NOp("Add", I("b"), N(1))>>)>>,
     <<NIf(I("a"), <<N(1)>>, <<NBool(TRUE)>>, <<N(2)>>, <<N(3)>>)>>}

ForScripts ==
    {<<NFor(<<"x">>, <<NRange(N(0), FALSE, N(3))>>, None, NOp("Multiply", I("x"), I("x")))>>,
     <<NFor(<<"x">>, <<Lit(<<1, 2, 3>>)>>, <<NOp("Less", I("x"), N(2))>>, I("x"))>>,
     <<NFor(<<"x">>, <<Lit(<<1, 2>>)>>, <<I("x")>>, I("x"))>>,
     <<NFor(<<"x">>, <<Lit(<<>>)>>, None, I("x"))>>,
     <<NFor(<<"x">>, <<Lit(<<1, 2>>)>>, <<NBool(FALSE)>>, I("x"))>>,
     <<NFor(<<"x">>, <<N(1)>>, None, I("x"))>>,
     <<NFor(<<"x">>, <<I("a")>>, None, NOp("Add", I("x"), N(1)))>>,
     <<NFor(<<"x", "y">>, <<Lit(<<1, 2, 3>>), NRange(N(0), FALSE, N(2))>>, None,
            NOp("Add", I("x"), I("y")))>>,
     <<NFor(<<"x", "y">>, <<NRange(N(0), FALSE, N(2))>>, None, NExpressions(<<I("x"), I("y")>>))>>,
     <<NFor(<<"x", "y">>, <<NList(<<Lit(<<1, 2, 3>>), Lit(<<4>>)>>)>>, None,
            NExpressions(<<I("x"), I("y")>>))>>,
     <<NFor(<<"x", "y">>, <<NList(<<Lit(<<1>>), Lit(<<2>>)>>), Lit(<<5, 6>>)>>, None,
            NExpressions(<<I("x"), I("y")>>))>>,
     <<NFor(<<"x">>, <<Lit(<<1>>), Lit(<<2>>)>>, None, I("x"))>>,
     <<NRange(N(0), FALSE, N(2)),
       NFor(<<"x">>, <<Lit(<<1, 2>>)>>, None, NOp("Add", I("x"), I("x")))>>,
     <<Set("b", NFor(<<"x">>, <<NRange(N(0), FALSE, N(3))>>, None,
                     NOp("Multiply", I("x"), I("x"))))>>}

CallScripts ==
    {<<NCall(<<"f">>, <<N(1)>>)>>,
     <<NCall(<<"f">>, <<>>)>>,
     <<NCall(<<"f">>, <<N(1), N(2)>>)>>,
     <<NCall(<<"f">>, <<Lit(<<1, 2>>), N(2)>>)>>,
     <<Set("s", NFunction(<<"self", "a">>, <<I("a")>>)), NCall(<<"s">>, <<N(1)>>)>>,
     <<Set("s", NFunction(<<"self", "a">>, <<I("a")>>)), NCall(<<"s">>, <<N(1), N(2)>>)>>,
     <<NCall(<<"f">>, <<I("nowhere")>>)>>,
     <<NCall(<<"f">>, <<NCall(<<"f">>, <<N(0)>>)>>)>>,
     <<Set("s", NFunction(<<"x">>, <<I("x")>>)), Set("t", NFunction(<<"y">>, <<I("y")>>)),
       NCall(<<"t">>, <<NCall(<<"s">>, <<N(1)>>)>>)>>,
     <<Set("s", NFunction(<<"x">>, <<I("nowhere")>>)),
       Set("t", NFunction(<<"y">>, <<NCall(<<"s">>, <<I("y")>>)>>)), NCall(<<"t">>, <<N(1)>>)>>,
     <<NCall(<<"m", "get">>, <<>>)>>,
     <<NCall(<<"m", "get">>, <<N(1)>>)>>,
     <<NCall(<<"m", "f">>, <<N(5)>>)>>,
     <<NCall(<<"m", "g">>, <<N(5)>>)>>,
     <<NCall(<<"m", "g">>, <<I("nowhere")>>)>>,
     <<NCall(<<"m", "h">>, <<N(1)>>)>>,
     <<NCall(<<"m", "h">>, <<N(0)>>)>>,
     <<NCall(<<"ext">>, <<N(1), N(2)>>)>>,
     <<NCall(<<"a">>, <<>>)>>,
     <<Set("s", NFunction(<<"f">>, <<NCall(<<"f">>, <<>>)>>)), NCall(<<"s">>, <<N(5)>>)>>,
     <<Set("s", NFunction(<<"m">>, <<NId(<<"m", "x">>)>>)), NCall(<<"s">>, <<N(5)>>)>>,
     <<Set("s", NFunction(<<"m">>, <<NId(<<"m", "x">>)>>)),
       NCall(<<"s">>, <<NMap(<< <<"x", N(1)>> >>)>>)>>,
     <<Set("s", NFunction(<<"x">>, <<Set("a", I("x")), Set("a", NOp("Add", I("a"), N(1))),
                                     I("a")>>)),
       NCall(<<"s">>, <<N(7)>>), I("a")>>,
     <<Set("s", NFunction(<<"x">>, <<NAssign("a", I("x"), TRUE), I("a")>>)),
       NCall(<<"s">>, <<N(7)>>), I("a")>>,
     <<Set("s", NFunction(<<"x">>, <<NCall(<<"f">>, <<I("x")>>)>>)), NCall(<<"s">>, <<N(0)>>)>>}

\* a[i], a[min..max], a[min..=max] with indices from -1 up to one past MaxBound
IndexScripts ==
    LET Neg == NOp("Subtract", N(0), N(1))
        Ends == {N(i) : i \in 0..MaxBound + 1} \cup {Neg}
    IN {<<NIndex(<<"a">>, e)>> : e \in Ends \cup {NBool(TRUE), Lit(<<0>>)}}
       \cup {<<NIndex(<<"a">>, NRange(lo, inc, hi))>> : lo \in Ends, hi \in Ends, inc \in BOOLEAN}
       \cup {<<NIndex(<<"nowhere">>, N(0))>>, <<NIndex(<<"m", "x">>, N(1))>>,
             <<NIndex(<<"a">>, I("nowhere"))>>}

\* the operators of Node::Op
AstOps ==
    ArithmeticOps \cup {"Less", "LessOrEqual", "Greater", "GreaterOrEqual", "And", "Or",
                        "Equal", "NotEqual"}

\* one literal or more of every kind of value
Operands ==
    {N(7), N(0), NOp("Subtract", N(0), N(MaxBound)), NBool(TRUE), NBool(FALSE), NStr("s"),
     Lit(<<1, 2>>), NMap(<< <<"x", N(1)>> >>), NVec4(<< <<1, 1>>, <<0, 1>>, <<0 - 3, 1>>, <<1, 2>> >>),
     Identity, NRange(N(0), FALSE, N(MaxBound)), NExpressions(<<>>)}

OpScripts == {<<NOp(op, lhs, rhs)>> : op \in AstOps, lhs \in Operands, rhs \in Operands}

\* a + b on lists and maps that globals hold, some of them twice
AddScripts ==
    {<<Set("b", I("a")), Set("c", NOp("Add", I("a"), I("b"))),
       Set("n", NOp("Add", I("m"), NMap(<< <<"x", N(1)>>, <<"z", N(2)>> >>)))>>,
     <<NOp("Add", I("a"), Lit(<<3>>)), I("a")>>,
     <<NOp("Add", Lit(<<>>), I("a"))>>,
     <<Set("n", I("m")), NOp("Add", NMap(<< <<"x", N(1)>> >>), I("m")), I("n")>>,
     <<NOp("Add", I("m"), I("m"))>>}

\* p, q[, r] = one or several right-hand sides, at top level and in a function
MultiAssignScripts ==
    {<<NMultiAssign(ids, rhs, glob)>> :
        ids \in {<<"p", "q">>, <<"p", "q", "r">>},
        rhs \in {<<Lit(<<1, 2>>)>>, <<Lit(<<4, 5, 6, 7>>)>>, <<Lit(<<>>)>>, <<N(5)>>, <<I("a")>>,
                 <<NRange(N(0), FALSE, N(MaxBound))>>, <<I("nowhere")>>,
                 <<N(1), N(2)>>, <<N(1), N(2), N(3), N(4)>>, <<Lit(<<1, 2>>), N(3)>>,
                 <<Lit(<<8>>), I("a")>>, <<N(1), I("nowhere")>>},
        glob \in BOOLEAN}
    \cup {<<Set("s", NFunction(<<"x">>, <<NMultiAssign(<<"p", "q">>, <<I("x")>>, FALSE), I("q")>>)),
            NCall(<<"s">>, <<Lit(<<1, 2>>)>>), I("p")>>,
          <<Set("s", NFunction(<<"x">>, <<NMultiAssign(<<"p", "q">>, <<I("x"), N(9)>>, FALSE), I("q")>>)),
            NCall(<<"s">>, <<N(7)>>)>>}

Scripts ==
    AddScripts \cup MultiAssignScripts \cup Definitions \cup RangeScripts \cup AssignScripts \cup ForScripts \cup CallScripts
    \cup IndexScripts \cup OpScripts

\* the names the host registers functions under
ExternalNames == {"f"}

\* ------------------------------------------------------------------ the Runtime
\* ------------------------------------------------------------------ the iterator module
\* ValueIteratorOutput: a value or an error (value pairs are collected to values)
OValue(v) == [o |-> "Value", v |-> v]
OError == [o |-> "Error"]
\* Option<Output>::None, what next() returns on an exhausted iterator
ONone == [o |-> "None"]

\* a RuntimeError: what raised it (the upstream iterator, a callback, a binary
\* operator, a check of the builtin's arguments) and the prefixes put before it
RuntimeError(kind) == [kind |-> kind, prefix |-> <<>>]
\* RuntimeError::with_prefix
with_prefix(error, prefix) == [error EXCEPT !.prefix = <<prefix>> \o @]
\* unexpected_type_error_with_slice(name, ..)
unexpected_type_error(name) == with_prefix(RuntimeError("unexpected_type"), name)

\* iter: the iterable xs a function of the module is called with, the number
\* pos of outputs pulled from its iterator so far, the call made, the iterator
\* the call returned and the outputs pulled from that one
IterIdle == [xs |-> <<>>, pos |-> 0, call |-> None, handle |-> None, out |-> <<>>]

\* is_sequence(): a List is one, an iterator that can fail is not
is_sequence(xs) == \A i \in 1..Len(xs) : xs[i] # OError

\* for _ in 0..n { if let Some(Output::Error(error)) = iter.next() { return Err(error) } }
RECURSIVE skip_loop(_, _, _)
skip_loop(xs, pos, n) ==
    IF n = 0 THEN [res |-> "ok", pos |-> pos]
    ELSE IF pos >= Len(xs) THEN skip_loop(xs, pos, n - 1)
    ELSE IF xs[pos + 1] = OError THEN [res |-> "err", pos |-> pos + 1]
    ELSE skip_loop(xs, pos + 1, n - 1)

Adaptors ==
    {"chain", "chunks", "cycle", "each", "enumerate", "flatten", "intersperse", "keep",
     "skip", "take", "windows", "zip"}

\* the closures make_module registers for the adaptors, called with xs (and
\* for chain and zip a second iterable, for each, keep and intersperse a
\* function or separator) and, where they take one, the number n:
\* [res, pos, handle], handle the iterator returned
adaptor(name, xs, pos, n) ==
    CASE name = "skip" ->
           IF n < 0 THEN [res |-> "err", pos |-> pos, handle |-> None]
           ELSE LET r == skip_loop(xs, pos, n)
                IN [res |-> r.res, pos |-> r.pos,
                    handle |-> IF r.res = "ok" THEN Some([kind |-> "iter"]) ELSE None]
      [] name = "take" ->
           IF n < 0 THEN [res |-> "err", pos |-> pos, handle |-> None]
           ELSE [res |-> "ok", pos |-> pos, handle |-> Some([kind |-> "take", n |-> n])]
      [] name \in {"chunks", "windows"} ->
           IF is_sequence(xs) /\ n >= 1
           THEN [res |-> "ok", pos |-> pos, handle |-> Some([kind |-> name, n |-> n])]
           ELSE [res |-> "err", pos |-> pos, handle |-> None]
      [] OTHER -> [res |-> "ok", pos |-> pos, handle |-> Some([kind |-> name])]

\* next() on the iterator of xs
iterator_next(it) ==
    IF it.pos < Len(it.xs)
    THEN [it EXCEPT !.pos = @ + 1, !.out = Append(@, it.xs[it.pos + 1])]
    ELSE [it EXCEPT !.out = Append(@, ONone)]

\* adaptors::Take::next
take_next(it) ==
    IF it.handle[1].n = 0 THEN [it EXCEPT !.out = Append(@, ONone)]
    ELSE [iterator_next(it) EXCEPT !.handle = Some([kind |-> "take", n |-> it.handle[1].n - 1])]

\* vm.run_function(key_fn, value) for the key function x -> x[0]: <<TRUE, key>> or <<FALSE>>
run_function(arg) ==
    IF arg.t = "List" /\ arg.l # <<>> THEN <<TRUE, arg.l[1]>> ELSE <<FALSE>>

RECURSIVE vm(_, _)
\* the lesser of a and b under `<`, b when neither is; the other one when invert_result
compare_values(a, b, invert_result) ==
    LET comparison_result == vm("run_binary_op", <<"Less", a, b>>)
    IN IF ~comparison_result[1] THEN <<FALSE>>
       ELSE <<TRUE, IF comparison_result[2].b = ~invert_result THEN a ELSE b>>

\* the same on <<value, key>> pairs, comparing the keys
compare_values_with_key(a_and_key, b_and_key, invert_result) ==
    LET comparison_result == vm("run_binary_op", <<"Less", a_and_key[2], b_and_key[2]>>)
    IN IF ~comparison_result[1] THEN <<FALSE>>
       ELSE <<TRUE, IF comparison_result[2].b = ~invert_result THEN a_and_key ELSE b_and_key>>

\* what a builtin returns after pulling pos outputs: Ok(value) or Err(error)
Done(pos, v) == [res |-> "ok", pos |-> pos, value |-> v, error |-> RuntimeError("none")]
Failed(pos, error) == [res |-> "err", pos |-> pos, value |-> Empty, error |-> error]
\* result.map_err(|e| e.with_prefix(prefix))
map_err(r, prefix) == IF r.res = "err" THEN [r EXCEPT !.error = with_prefix(@, prefix)] ELSE r

\* the for loops of run_iterator_comparison and run_iterator_comparison_by_key
\* from output i on, best being the `result` so far: [res, pos, value]
RECURSIVE comparison_loop(_, _, _, _), comparison_by_key_loop(_, _, _, _)
comparison_loop(xs, i, best, invert_result) ==
    IF i > Len(xs) THEN Done(Len(xs), IF best = None THEN Empty ELSE best[1])
    ELSE IF xs[i] = OError THEN Failed(i, RuntimeError("upstream"))
    ELSE IF best = None THEN comparison_loop(xs, i + 1, Some(xs[i].v), invert_result)
    ELSE LET c == compare_values(best[1], xs[i].v, invert_result)
         IN IF c[1] THEN comparison_loop(xs, i + 1, Some(c[2]), invert_result)
            ELSE Failed(i, RuntimeError("binary_op"))

comparison_by_key_loop(xs, i, result_and_key, invert_result) ==
    IF i > Len(xs)
    THEN Done(Len(xs), IF result_and_key = None THEN Empty ELSE result_and_key[1][1])
    ELSE IF xs[i] = OError THEN Failed(i, RuntimeError("upstream"))
    ELSE IF ~run_function(xs[i].v)[1] THEN Failed(i, RuntimeError("callback"))
    ELSE LET value_and_key == <<xs[i].v, run_function(xs[i].v)[2]>>
             c == compare_values_with_key(result_and_key[1], value_and_key, invert_result)
         IN IF result_and_key = None
            THEN comparison_by_key_loop(xs, i + 1, Some(value_and_key), invert_result)
            ELSE IF c[1] THEN comparison_by_key_loop(xs, i + 1, Some(c[2]), invert_result)
            ELSE Failed(i, RuntimeError("binary_op"))

run_iterator_comparison(xs, invert_result) == comparison_loop(xs, 1, None, invert_result)

run_iterator_comparison_by_key(xs, invert_result) ==
    comparison_by_key_loop(xs, 1, None, invert_result)

\* vm.run_function(f, args) for the callbacks the terminals are called with:
\* the predicate x -> x[1] == 20 and the folding function (acc, x) -> acc + x[0];
\* <<TRUE, value>> or <<FALSE>> when the callback fails
run_callback(name, acc, arg) ==
    IF arg.t # "List" \/ Len(arg.l) < 2 THEN <<FALSE>>
    ELSE IF name = "fold" THEN vm("run_binary_op", <<"Add", acc, arg.l[1]>>)
    ELSE <<TRUE, Bool(arg.l[2] = Number(20))>>

Terminals ==
    {"all", "any", "consume", "count", "find", "fold", "last", "min_max", "position",
     "product", "sum", "to_list", "to_map", "to_string", "to_tuple"}

\* the for loop of the terminal `name` (called with a callback when with_fn)
\* from output i on, acc being what the loop has computed so far
RECURSIVE terminal_loop(_, _, _, _, _)
terminal_loop(name, with_fn, xs, i, acc) ==
    IF i > Len(xs) THEN
        Done(Len(xs),
             CASE name = "all" -> Bool(TRUE)
               [] name = "any" -> Bool(FALSE)
               [] name \in {"consume", "find", "position"} -> Empty
               [] name = "min_max" ->
                    IF acc = None THEN Empty
                    ELSE [t |-> "Tuple",
                          l |-> IF with_fn THEN <<acc[1][1][1], acc[1][2][1]>> ELSE acc[1]]
               [] name = "to_list" -> List(acc)
               [] name = "to_map" -> Map(acc)
               [] name = "to_string" -> Str(acc)
               [] name = "to_tuple" -> [t |-> "Tuple", l |-> acc]
               [] OTHER -> acc)
    ELSE IF xs[i] = OError THEN Failed(i, RuntimeError("upstream"))
    ELSE LET v == xs[i].v
             called == run_callback(name, acc, v)
             \* Value::to_string
             to_string ==
                 IF v.t = "Number" THEN ToString(v.n)
                 ELSE "[" \o ToString(v.l[1].n) \o ", " \o ToString(v.l[2].n) \o "]"
         IN CASE name \in {"all", "any", "find", "position"} ->
                   IF ~called[1]
                   THEN Failed(i, with_prefix(RuntimeError("callback"),
                                              IF name = "any" THEN "iterator.all"
                                              ELSE "iterator." \o name))
                   ELSE IF called[2].t # "Bool"
                   THEN Failed(i, unexpected_type_error("iterator." \o name))
                   ELSE IF called[2].b = (name # "all")
                   THEN Done(i, CASE name = "find" -> v
                                  [] name = "position" -> Number(i - 1)
                                  [] OTHER -> Bool(name = "any"))
                   ELSE terminal_loop(name, with_fn, xs, i + 1, acc)
              [] name = "consume" ->
                   IF with_fn /\ ~called[1] THEN Failed(i, RuntimeError("callback"))
                   ELSE terminal_loop(name, with_fn, xs, i + 1, acc)
              [] name = "count" -> terminal_loop(name, with_fn, xs, i + 1, acc + 1)
              [] name = "fold" ->
                   IF ~called[1]
                   THEN Failed(i, with_prefix(RuntimeError("callback"), "iterator.fold"))
                   ELSE terminal_loop(name, with_fn, xs, i + 1, called[2])
              [] name = "last" -> terminal_loop(name, with_fn, xs, i + 1, v)
              [] name = "min_max" /\ ~with_fn ->
                   IF acc = None THEN terminal_loop(name, with_fn, xs, i + 1, Some(<<v, v>>))
                   ELSE LET lo == compare_values(acc[1][1], v, FALSE)
                            hi == compare_values(acc[1][2], v, TRUE)
                        IN IF ~lo[1] \/ ~hi[1]
                           THEN Failed(i, with_prefix(RuntimeError("binary_op"), "iterator.min_max"))
                           ELSE terminal_loop(name, with_fn, xs, i + 1, Some(<<lo[2], hi[2]>>))
              [] name = "min_max" /\ with_fn ->
                   IF ~run_function(v)[1] THEN Failed(i, RuntimeError("callback"))
                   ELSE LET value_and_key == <<v, run_function(v)[2]>>
                            lo == compare_values_with_key(acc[1][1], value_and_key, FALSE)
                            hi == compare_values_with_key(acc[1][2], value_and_key, TRUE)
                        IN IF acc = None
                           THEN terminal_loop(name, with_fn, xs, i + 1,
                                              Some(<<value_and_key, value_and_key>>))
                           ELSE IF ~lo[1] \/ ~hi[1]
                           THEN Failed(i, with_prefix(RuntimeError("binary_op"), "iterator.min_max"))
                           ELSE terminal_loop(name, with_fn, xs, i + 1, Some(<<lo[2], hi[2]>>))
              [] name \in {"product", "sum"} ->
                   LET r == vm("run_binary_op", <<IF name = "sum" THEN "Add" ELSE "Multiply", acc, v>>)
                   IN IF r[1] THEN terminal_loop(name, with_fn, xs, i + 1, r[2])
                      ELSE Failed(i, RuntimeError("binary_op"))
              [] name \in {"to_list", "to_tuple"} ->
                   terminal_loop(name, with_fn, xs, i + 1, Append(acc, v))
              [] name = "to_map" -> terminal_loop(name, with_fn, xs, i + 1, Insert(acc, v, Empty))
              [] name = "to_string" ->
                   terminal_loop(name, with_fn, xs, i + 1, acc \o to_string)

\* the closure make_module registers for the terminal `name`
terminal(name, with_fn, xs) ==
    LET initial == CASE name \in {"count", "fold", "sum"} -> IF name = "count" THEN 0 ELSE Number(0)
                     [] name = "product" -> Number(1)
                     [] name = "last" -> Empty
                     [] name = "min_max" -> None
                     [] name \in {"to_list", "to_tuple"} -> <<>>
                     [] name = "to_map" -> NoBindings
                     [] name = "to_string" -> ""
                     [] OTHER -> Empty
        r == terminal_loop(name, with_fn, xs, 1, initial)
        \* the terminals that take a callback, and those that may
        NeedCallback == {"all", "any", "find", "fold", "position"}
        MayCallback == {"consume", "min_max"}
    IN IF with_fn # (name \in NeedCallback) /\ name \notin MayCallback
       THEN Failed(0, unexpected_type_error("iterator." \o name))
       ELSE IF name = "count" /\ r.res = "ok" THEN [r EXCEPT !.value = Number(@)]
       ELSE IF name \in {"product", "sum"} THEN map_err(r, "iterator." \o name)
       ELSE r

\* vm.method(args): the builtins of the module run on the Vm they are handed
vm(method, a) ==
    CASE method = "run_binary_op" -> binary_op(a[1], a[2], a[3])
      [] method = "terminal" -> terminal(a[1], a[2], a[3])
      [] method = "run_iterator_comparison" -> run_iterator_comparison(a[1], a[2])
      [] method = "run_iterator_comparison_by_key" -> run_iterator_comparison_by_key(a[1], a[2])

\* the values and errors an iterable produces
Outputs ==
    {OValue(Number(1)), OValue(Number(2)), OValue(List(<<Number(1), Number(10)>>)),
     OValue(List(<<Number(1), Number(20)>>)), OError}

IterInit ==
    /\ global = NoBindings
    /\ builtins = <<>>
    /\ call_stack = NewCallStack
    /\ return_stack = <<>>
    /\ status = "running"
    /\ last = <<>>
    /\ result = [res |-> "none", msg |-> <<>>, value |-> Empty]
    /\ log = <<>>
    /\ runs = 0
    /\ \E k \in 0..MaxLen : \E xs \in [1..k -> Outputs] : iter = [IterIdle EXCEPT !.xs = xs]

\* iterator.<name>(xs, n): one of the adaptors is called
CallAdaptor(name, n) ==
    /\ iter.call = None
    /\ LET r == adaptor(name, iter.xs, iter.pos, n)
       IN iter' = [iter EXCEPT !.pos = r.pos, !.handle = r.handle,
                               !.call = Some([f |-> name, n |-> n, res |-> r.res,
                                              pos0 |-> iter.pos, pos1 |-> r.pos])]
    /\ UNCHANGED <<global, builtins, call_stack, return_stack, status, last, result, log, runs>>

\* next() on the iterator skip or take returned
Advance ==
    /\ iter.handle # None
    /\ iter.handle[1].kind \in {"iter", "take"}
    /\ Len(iter.out) <= MaxLen
    /\ iter' = IF iter.handle[1].kind = "take" THEN take_next(iter) ELSE iterator_next(iter)
    /\ UNCHANGED <<global, builtins, call_stack, return_stack, status, last, result, log, runs>>

\* iterator.min(xs[, key_fn]) and iterator.max(xs[, key_fn])
Compare(name, by_key) ==
    /\ iter.call = None
    /\ LET r == map_err(IF by_key THEN vm("run_iterator_comparison_by_key", <<iter.xs, name = "max">>)
                        ELSE vm("run_iterator_comparison", <<iter.xs, name = "max">>),
                        "iterator." \o name)
       IN iter' = [iter EXCEPT !.pos = r.pos,
                               !.call = Some([f |-> name, by_key |-> by_key, res |-> r.res,
                                              value |-> r.value, error |-> r.error])]
    /\ UNCHANGED <<global, builtins, call_stack, return_stack, status, last, result, log, runs>>

\* iterator.<name>(xs[, f]): one of the other terminals is called; product
\* and sum are called without their optional initial value
Terminal(name, with_fn) ==
    /\ iter.call = None
    /\ name \in {"product", "sum"} => ~with_fn
    /\ LET r == vm("terminal", <<name, with_fn, iter.xs>>)
       IN iter' = [iter EXCEPT !.pos = r.pos,
                               !.call = Some([f |-> name, with_fn |-> with_fn, res |-> r.res,
                                              value |-> r.value, error |-> r.error])]
    /\ UNCHANGED <<global, builtins, call_stack, return_stack, status, last, result, log, runs>>

IterNext ==
    \/ \E name \in Terminals, with_fn \in BOOLEAN : Terminal(name, with_fn)
    \/ \E name \in Adaptors, n \in -1..MaxLen : CallAdaptor(name, n)
    \/ Advance
    \/ \E name \in {"min", "max"}, by_key \in BOOLEAN : Compare(name, by_key)

IterSpec == IterInit /\ [][IterNext]_vars

\* ------------------------------------------------ the host's registrations
\* the names the host registers entries under
Segments == {"m", "f"}

RECURSIVE register_at(_, _, _, _, _)
\* add_fn or add_map called on the sub-map that path[i..] leads to: the host
\* holds the &mut BuiltinMap returned by add_map, or reaches it with get_mut
register_at(bm, path, i, name, bv) ==
    IF i > Len(path)
    THEN IF bv.t = "Map" THEN add_map(bm, name) ELSE add_fn(bm, name, bv.f)
    ELSE LET e == get_entry_mut(bm, path[i])
         IN [bm EXCEPT ![e] = <<path[i], BMap(register_at(bm[e][2].m, path, i + 1, name, bv))>>]

\* BuiltinMap::new, and no registration made yet
BuiltinInit ==
    /\ global = NoBindings
    /\ builtins = <<>>
    /\ call_stack = NewCallStack
    /\ return_stack = <<>>
    /\ status = "running"
    /\ last = <<>>
    /\ result = [res |-> "none", msg |-> <<>>, value |-> Empty]
    /\ log = <<>>
    /\ runs = 0
    /\ iter = IterIdle

\* the host registers a function or an empty sub-map under `name` in the map
\* at `path`; log keeps the registrations in the order they were made
Register(path, name, bv) ==
    /\ Len(log) < MaxLen
    /\ path # <<>> => /\ builtin_get_mut(builtins, path, 1) # None
                      /\ builtin_get_mut(builtins, path, 1)[1].t = "Map"
    /\ builtins' = register_at(builtins, path, 1, name, bv)
    /\ log' = Append(log, [ev |-> "register", path |-> path, name |-> name, bv |-> bv])
    /\ UNCHANGED <<global, call_stack, return_stack, status, last, result, runs, iter>>

BuiltinNext ==
    \/ \E path \in {<<>>} \cup {<<a>> : a \in Segments} \cup (Segments \X Segments),
          name \in Segments, tag \in HostFns : Register(path, name, BFunction(tag))
    \/ \E path \in {<<>>} \cup {<<a>> : a \in Segments} \cup (Segments \X Segments),
          name \in Segments : Register(path, name, BMap(<<>>))

BuiltinSpec == BuiltinInit /\ [][BuiltinNext]_vars

Init ==
    /\ global = NoBindings
    /\ builtins = <<>>
    /\ call_stack = NewCallStack
    /\ return_stack = <<>>
    /\ status = "running"
    /\ last = <<>>
    /\ result = [res |-> "none", msg |-> <<>>, value |-> Empty]
    /\ log = <<>>
    /\ runs = 0
    /\ iter = IterIdle

\* Runtime::run on a script.  A session runs at most MaxRuns definitions and
\* then one script of any kind, after which it is over.  The scripts of
\* OpScripts hold literals alone and read neither a global nor a builtin: they
\* are run by a session that has defined nothing.
Run(ast, u) ==
    /\ status = "running"
    /\ ast \in Definitions => runs < MaxRuns
    /\ ast \in OpScripts => (runs = 0 /\ builtins = <<>>)
    /\ \E s \in {run(Enter(global, builtins, call_stack, return_stack, u), ast)} :
          /\ global' = s.global
          /\ builtins' = s.builtins
          /\ call_stack' = s.cs
          /\ return_stack' = s.rs
          /\ status' = IF s.res = "abort" THEN "aborted"
                       ELSE IF ast \in Definitions THEN "running" ELSE "finished"
          /\ last' = ast
          /\ result' = [res |-> s.res, msg |-> s.msg,
                        value |-> IF s.res = "ok" THEN s.v ELSE Empty]
          /\ log' = s.log
          /\ runs' = runs + 1
          /\ UNCHANGED iter

\* the host registers an external function: runtime.builtins_mut().add_fn(name, f)
AddFn(name, tag) ==
    /\ status = "running"
    /\ builtins' = add_fn(builtins, name, tag)
    /\ UNCHANGED <<global, call_stack, return_stack, status, last, result, log, runs, iter>>

Next ==
    \/ \E ast \in Scripts, u \in UndefinedOutcomes : Run(ast, u)
    \/ \E name \in ExternalNames, tag \in HostFns : AddFn(name, tag)

Spec == Init /\ [][Next]_vars

\* ------------------------------------------------------------------ properties
\* the observations of the last run that are of one kind
Events(kind) == {i \in 1..Len(log) : log[i].ev = kind}
Ran == result.res # "none"
Succeeded == result.res = "ok"
\* the numbers lo, lo+1, ..., hi-1 as Numbers
Numbers(lo, hi) == [i \in 1..(hi - lo) |-> Number(lo + i - 1)]
RECURSIVE Flatten(_)
Flatten(ss) == IF ss = <<>> THEN <<>> ELSE ss[1] \o Flatten(Tail(ss))

\* C1: a run of a top-level assignment `id = expr` stores the captured value of
\* expr under id in the global scope and returns it; a later run of `id`
\* returns the value the global scope holds for id, and with a = 2 a run of
\* `a + a` returns 4.
C1_AssignThenResolve ==
    Succeeded =>
      /\ (Len(last) = 1 /\ last[1].k = "Assign") =>
            /\ last[1].id \in DOMAIN global
            /\ global[last[1].id] = result.value
            /\ \E i \in Events("capture") :
                  /\ log[i].base = Len(return_stack) + 3
                  /\ log[i].frame = <<result.value>>
      /\ (Len(last) = 1 /\ last[1].k = "Id" /\ Len(last[1].id) = 1) =>
            /\ last[1].id[1] \in DOMAIN global
            /\ result.value = global[last[1].id[1]]
      /\ (last = <<NOp("Add", I("a"), I("a"))>> /\ global["a"] = Number(2)) =>
            result.value = Number(4)

\* the second of two runs, `a + a` after `a = 2`, returned 4
C1_Witness ==
    /\ last = <<NOp("Add", I("a"), I("a"))>>
    /\ runs >= 2
    /\ Succeeded
    /\ global["a"] = Number(2)
    /\ result.value = Number(4)

\* C2: after a successful evaluate_and_capture the frame it opened is the top
\* frame and holds exactly one value: Empty for 0 expanded values, the value
\* for 1, a List of the values in order for 2 or more, none of which is a For
\* or a Range; a capture fails only on 2 or more values with a For or a Range.
C2_CaptureOneValue ==
    /\ \A i \in Events("capture") :
          LET e == log[i] IN
          /\ e.depth = e.base + 1
          /\ Len(e.frame) = 1
          /\ Len(e.vals) = 0 => e.frame[1] = Empty
          /\ Len(e.vals) = 1 => e.frame[1] = e.vals[1]
          /\ Len(e.vals) >= 2 =>
                /\ e.frame[1] = List(e.vals)
                /\ \A j \in 1..Len(e.vals) : e.vals[j].t \notin {"For", "Range"}
    /\ \A i \in Events("capture_err") :
          /\ Len(log[i].vals) >= 2
          /\ \E j \in 1..Len(log[i].vals) : log[i].vals[j].t \in {"For", "Range"}

\* one run captured 0 values as Empty, 1 value as itself and 3 values as a List
C2_Witness ==
    /\ \E i \in Events("capture") : log[i].vals = <<>> /\ log[i].frame = <<Empty>>
    /\ \E i \in Events("capture") : log[i].vals = <<Number(1)>> /\ log[i].frame = <<Number(1)>>
    /\ \E i \in Events("capture") :
          /\ Len(log[i].vals) = 3
          /\ log[i].frame = <<List(log[i].vals)>>

\* what evaluate_and_expand leaves in its frame for the values its child produced
\* (loop: the iteration results, when the child is a single For)
Expanded(child, loop, empty_loop) ==
    IF Len(child) # 1 THEN child
    ELSE CASE child[1].t = "For" -> IF loop = <<>> THEN empty_loop ELSE loop
           [] child[1].t = "Range" -> Numbers(child[1].min, child[1].max)
           [] child[1].t = "Empty" -> <<>>
           [] OTHER -> child

\* C3 (as stated): evaluate_and_expand leaves in its frame the iteration results
\* of a single For, the Numbers min..max-1 of a single Range, nothing for a
\* single Empty, a single other value unchanged, and 0 or 2+ values unchanged.
C3_ExpandAsStated ==
    \A i \in Events("expand") :
        /\ log[i].depth = log[i].base + 1
        /\ log[i].frame = Expanded(log[i].child, log[i].loop, <<>>)

\* C3 (amended): as stated, except that a single For whose execution yields no
\* iteration result leaves one Empty in the frame.
C3_ExpandAmended ==
    \A i \in Events("expand") :
        /\ log[i].depth = log[i].base + 1
        /\ log[i].frame = Expanded(log[i].child, log[i].loop, <<Empty>>)

\* one run expanded a Range into its two Numbers and a For into its two results
C3_Witness ==
    /\ \E i \in Events("expand") :
          /\ log[i].child = <<Range(0, 2)>>
          /\ log[i].frame = <<Number(0), Number(1)>>
    /\ \E i \in Events("expand") :
          /\ Len(log[i].child) = 1 /\ log[i].child[1].t = "For"
          /\ log[i].frame = <<Number(2), Number(4)>>

\* C4: evaluating a Range node pushes a Range exactly when both bounds are
\* Numbers and min <= max after an inclusive max is replaced by max+1; the
\* Range pushed has these bounds; otherwise the evaluation fails with an error
\* and pushes nothing.
C4_RangeValid ==
    \A i \in Events("range") :
        LET e == log[i]
            numbers == e.min.t = "Number" /\ e.max.t = "Number"
            hi == IF e.inclusive THEN e.max.n + 1 ELSE e.max.n
        IN /\ e.res \in {"ok", "err"}
           /\ e.res = "ok" =>
                 /\ numbers
                 /\ e.min.n <= hi
                 /\ e.frame = <<Range(e.min.n, hi)>>
                 /\ e.frame[1].min <= e.frame[1].max
           /\ (~numbers \/ e.min.n > hi) => (e.res = "err" /\ e.frame = <<>>)

\* the inclusive range 2..=1 was evaluated to the empty half-open range [2, 2)
C4_Witness ==
    \E i \in Events("range") :
        /\ log[i].inclusive
        /\ log[i].min = Number(2) /\ log[i].max = Number(1)
        /\ log[i].frame = <<Range(2, 2)>>

\* C5 (as stated): a For over ranges that evaluate to Lists or Ranges ends
\* normally after exactly min(len) iterations, each appending one captured body
\* value when there is no condition or the condition is true and nothing when
\* it is false; a non-Bool condition is an error; a range that is neither a
\* List nor a Range is an error raised before any body evaluation.
C5_ForAsStated ==
    \A i \in Events("for") :
        LET e == log[i] IN
        /\ ~e.iterable =>
              /\ e.res = "err"
              /\ \A j \in Events("body") : log[j].loop # e.loop
        /\ e.iterable =>
              /\ e.res \in {"ok", "err"}
              /\ e.res = "ok" =>
                    /\ Len(e.trace) = Min({e.lens[j] : j \in 1..Len(e.lens)})
                    /\ \A j \in 1..Len(e.trace) :
                          Len(e.trace[j].kept) = IF e.trace[j].cond = "false" THEN 0 ELSE 1
                    /\ e.results = Flatten([j \in 1..Len(e.trace) |-> e.trace[j].kept])

\* C6 (as stated): the binding step of every iteration binds every loop
\* argument (elements of a single range's List positionally, otherwise the
\* ranges' values in order, missing ones as Empty) and never aborts.
C6_BindAsStated ==
    \A i \in Events("bind") :
        LET e == log[i]
            source == IF e.single /\ e.vals[1].t = "List" THEN e.vals[1].l ELSE e.vals
        IN /\ e.res = "ok"
           /\ \A j \in 1..Len(e.args) :
                 e.bound[j] = Some(IF j <= Len(source) THEN source[j] ELSE Empty)

\* C7 (as stated): in a call through a chain m.f of a function whose first
\* declared argument is self, the committed frame binds self to the value the
\* chain prefix resolved to at the call.
C7_SelfAsStated ==
    \A i \in Events("enter") :
        LET e == log[i] IN
        (Len(e.id) > 1 /\ Len(e.f.args) > 0 /\ e.f.args[1] = "self") =>
            /\ "self" \in DOMAIN e.frame
            /\ e.frame["self"] = e.receiver[1]

\* C8: a call of a user function commits a frame only when the number of call
\* arguments is the expected one (declared - 1 through a chain to a function
\* whose first argument is self, declared otherwise); on a mismatch it fails
\* with an error carrying the expected and the provided count, nothing having
\* been evaluated or staged.
C8_ArityChecked ==
    /\ \A i \in Events("enter") :
          LET e == log[i] IN
          e.nargs = IF Len(e.id) > 1 /\ Len(e.f.args) > 0 /\ e.f.args[1] = "self"
                    THEN Len(e.f.args) - 1 ELSE Len(e.f.args)
    /\ \A i \in Events("call") :
          LET c == log[i]
              f == c.callee[1].f
              expected == IF Len(c.id) > 1 /\ Len(f.args) > 0 /\ f.args[1] = "self"
                          THEN Len(f.args) - 1 ELSE Len(f.args)
          IN (c.callee # None /\ c.callee[1].t = "Function" /\ c.nargs # expected) =>
                /\ c.res = "err"
                /\ c.msg = <<"Incorrect argument count", expected, c.nargs>>
                /\ c.cs1 = c.cs0
                /\ c.at = i - 1

\* m.get(1) was refused: get is declared (self), so a chain call expects 0 arguments
C8_Witness ==
    \E i \in Events("call") :
        /\ log[i].id = <<"m", "get">>
        /\ log[i].nargs = 1
        /\ log[i].msg = <<"Incorrect argument count", 0, 1>>

\* C9 (as stated): the frame committed for a call binds the last segment of
\* the called chain to the function called.
C9_OwnNameAsStated ==
    \A i \in Events("enter") :
        LET e == log[i] IN
        /\ e.id[Len(e.id)] \in DOMAIN e.frame
        /\ e.frame[e.id[Len(e.id)]] = Function(e.f)

\* C10 (as stated): when an argument of a user-function call fails, the call
\* returns that error, no frame is committed for it, the committed frames are
\* as before the call and nothing the call staged is left in the staging buffer.
C10_ArgumentFailureAsStated ==
    \A i \in Events("argfail") :
        /\ \A j \in Events("enter") : log[j].at # log[i].at
        /\ \A j \in Events("call") :
              log[j].at = log[i].at =>
                 /\ log[j].res = "err"
                 /\ log[j].msg = log[i].msg
                 /\ log[j].cs1.frames = log[j].cs0.frames
                 /\ \A x \in DOMAIN log[j].cs1.staging :
                       /\ x \in DOMAIN log[j].cs0.staging
                       /\ log[j].cs1.staging[x] = log[j].cs0.staging[x]

\* the user value a chain resolves to: the top call frame first when there
\* is one, then the global scope
UserValue(cs, g, id) ==
    LET top == cs.frames[Len(cs.frames)]
        local == IF Len(cs.frames) > 0 /\ id[1] \in DOMAIN top
                 THEN (IF Len(id) = 1 THEN Some(top[id[1]]) ELSE MapLookup(top[id[1]], id, 2))
                 ELSE None
    IN IF local # None THEN local
       ELSE IF id[1] \in DOMAIN g
            THEN (IF Len(id) = 1 THEN Some(g[id[1]]) ELSE MapLookup(g[id[1]], id, 2))
            ELSE None

\* whether the registry holds the plain name id
Registered(bm, id) == Len(id) = 1 /\ \E k \in 1..Len(bm) : bm[k][1] = id[1]

\* C11: a call resolves its id among the user values first (top call frame,
\* then global scope) and goes to the external registry only when it is bound
\* in neither: a user function is the one entered even when the name is
\* registered; a non-function user value fails the call without the host
\* function being applied; a name bound nowhere and not registered fails with
\* 'Function not found'; only an unbound, registered name applies the host function.
C11_ResolutionOrder ==
    \A i \in Events("call") :
        LET c == log[i]
            user == UserValue(c.cs0, c.global0, c.id)
            hosted == \E j \in Events("host") : log[j].at = c.at
            entered == \E j \in Events("enter") : log[j].at = c.at
        IN /\ c.callee = user
           /\ user # None => ~hosted
           /\ (user # None /\ user[1].t = "Function") =>
                 /\ \A j \in Events("enter") : log[j].at = c.at => log[j].f = user[1].f
                 /\ c.res = "ok" => entered
           /\ (user # None /\ user[1].t # "Function") =>
                 /\ ~entered
                 /\ c.res = "err"
                 /\ c.msg = <<"Expected function for value">>
           /\ (user = None /\ ~Registered(c.builtins0, c.id)) =>
                 /\ ~entered /\ ~hosted
                 /\ c.res # "ok"
                 /\ (c.nargs = 0 /\ c.res = "err") => c.msg = <<"Function not found">>
           /\ (user = None /\ Registered(c.builtins0, c.id)) =>
                 /\ ~entered
                 /\ c.res = "ok" => hosted

\* s(5) with s = f -> f(): inside s the name f is the local 5 although the
\* registry and the global scope hold a function f, and the call is refused
C11_Witness ==
    \E i \in Events("call") :
        /\ log[i].id = <<"f">>
        /\ Len(log[i].cs0.frames) > 0
        /\ log[i].callee = Some(Number(5))
        /\ Registered(log[i].builtins0, <<"f">>)
        /\ "f" \in DOMAIN log[i].global0 /\ log[i].global0["f"].t = "Function"
        /\ log[i].msg = <<"Expected function for value">>

\* C12: an Assign at frame() = 0, or marked global at any depth, writes the
\* global scope and no call frame; an Assign at frame() > 0 that is not marked
\* global creates or updates the binding in the top call frame only and leaves
\* the global scope as it was; the committed frames after a call that entered
\* its body are those before it, so the local binding is gone.
C12_AssignScope ==
    /\ \A i \in Events("assign") :
          LET e == log[i]
              n == Len(e.cs0.frames)
          IN IF n = 0 \/ e.global
             THEN /\ e.global1 = Insert(e.global0, e.id, e.v)
                  /\ e.cs1 = e.cs0
             ELSE /\ e.global1 = e.global0
                  /\ e.cs1.staging = e.cs0.staging
                  /\ e.cs1.frames = [e.cs0.frames EXCEPT ![n] = Insert(@, e.id, e.v)]
    /\ \A i \in Events("call") :
          (log[i].res # "abort" /\ \E j \in Events("enter") : log[j].at = log[i].at) =>
             log[i].cs1.frames = log[i].cs0.frames

\* s(7) with s = x -> { a = x; a = a + 1; a } over a global a = 2: the body
\* made and updated its own a (the call gave 8), and the run's last expression
\* a still gave the global 2
C12_Witness ==
    /\ Succeeded /\ result.value = Number(2)
    /\ "a" \in DOMAIN global /\ global["a"] = Number(2)
    /\ \E i \in Events("assign") :
          /\ log[i].id = "a" /\ ~log[i].global /\ Len(log[i].cs0.frames) = 1
          /\ "a" \in DOMAIN log[i].cs0.frames[1]
          /\ log[i].v = Number(8)
          /\ "a" \in DOMAIN log[i].global0 /\ log[i].global0["a"] = Number(2)

\* the value the chain id reaches from the binding of its first identifier
\* (the top call frame's when it binds it, else the global scope's), each later
\* segment being a key of the Map reached so far; None when there is none
ChainValue(cs, g, id) ==
    LET n == Len(cs.frames)
        first == IF n > 0 /\ id[1] \in DOMAIN cs.frames[n] THEN Some(cs.frames[n][id[1]])
                 ELSE IF id[1] \in DOMAIN g THEN Some(g[id[1]])
                 ELSE None
    IN IF first = None THEN None ELSE MapLookup(first[1], id, 2)

\* C13 (as stated): an Id node pushes the value its chain reaches from the
\* binding of the first identifier (top call frame, else global scope); when
\* the first identifier is bound nowhere, a key is missing or an intermediate
\* value is not a Map, it fails with an error and pushes no value.
C13_LookupAsStated ==
    \A i \in Events("id") :
        LET e == log[i]
            expected == ChainValue(e.cs, e.global, e.id)
        IN IF expected = None
           THEN e.res = "err" /\ e.frame = <<>>
           ELSE e.res = "ok" /\ e.frame = <<expected[1]>>

\* C14 (as stated): indexing with a Number i a list of length n pushes element
\* i when 0 <= i < n and fails with an error, pushing nothing, when i >= n or
\* i < 0; indexing fails when id is not a List or the index is neither a
\* Number nor a Range.
C14_NumberIndexAsStated ==
    \A k \in Events("index") :
        LET e == log[k]
        IN IF e.list = None \/ e.list[1].t # "List" \/ e.index.t \notin {"Number", "Range"}
           THEN e.res = "err" /\ e.frame = <<>>
           ELSE e.index.t = "Number" =>
                IF 0 <= e.index.n /\ e.index.n < Len(e.list[1].l)
                THEN e.res = "ok" /\ e.frame = <<e.list[1].l[e.index.n + 1]>>
                ELSE e.res = "err" /\ e.frame = <<>>

\* the same with the negative indices left out: what the code does for i >= 0
C14_NonNegativeIndex ==
    \A k \in Events("index") :
        LET e == log[k]
        IN IF e.list = None \/ e.list[1].t # "List" \/ e.index.t \notin {"Number", "Range"}
           THEN e.res = "err" /\ e.frame = <<>>
           ELSE (e.index.t = "Number" /\ e.index.n >= 0) =>
                IF e.index.n < Len(e.list[1].l)
                THEN e.res = "ok" /\ e.frame = <<e.list[1].l[e.index.n + 1]>>
                ELSE e.res = "err" /\ e.frame = <<>>

\* a negative index on a non-empty list
C14_NegativeIndex ==
    \E k \in Events("index") :
        /\ log[k].list # None /\ log[k].list[1].t = "List" /\ log[k].list[1].l # <<>>
        /\ log[k].index.t = "Number" /\ log[k].index.n < 0

\* C15 (as stated): indexing with a Range [min, max) a list of length n
\* returns, for every 0 <= min <= max <= n, a new List of the elements
\* min..max-1 in order and leaves the source list as it was; it fails with an
\* error when min < 0, max < 0 or max > n.
C15_SliceAsStated ==
    \A k \in Events("index") :
        LET e == log[k]
            l == e.list[1].l
        IN (e.list # None /\ e.list[1].t = "List" /\ e.index.t = "Range") =>
           IF 0 <= e.index.min /\ e.index.min <= e.index.max /\ e.index.max <= Len(l)
           THEN /\ e.res = "ok"
                /\ e.frame = <<List(SubSeq(l, e.index.min + 1, e.index.max))>>
                /\ get_value(e.after, e.id) = e.list
           ELSE (e.index.min < 0 \/ e.index.max < 0 \/ e.index.max > Len(l)) =>
                (e.res = "err" /\ e.frame = <<>>)

\* the same for the slices that end before the last element, max < n
C15_SliceBeforeLast ==
    \A k \in Events("index") :
        LET e == log[k]
            l == e.list[1].l
        IN (e.list # None /\ e.list[1].t = "List" /\ e.index.t = "Range") =>
           IF 0 <= e.index.min /\ e.index.min <= e.index.max /\ e.index.max < Len(l)
           THEN /\ e.res = "ok"
                /\ e.frame = <<List(SubSeq(l, e.index.min + 1, e.index.max))>>
                /\ get_value(e.after, e.id) = e.list
           ELSE (e.index.min < 0 \/ e.index.max < 0 \/ e.index.max > Len(l)) =>
                (e.res = "err" /\ e.frame = <<>>)

\* the operand kinds Node::Op has a result for
OpDefined(op, ta, tb) ==
    \/ op \in {"Equal", "NotEqual"}
    \/ op \in ArithmeticOps /\ ta \in {"Number", "Vec4"} /\ tb \in {"Number", "Vec4"}
    \/ op = "Add" /\ ta = tb /\ ta \in {"List", "Map"}
    \/ op \in {"Less", "LessOrEqual", "Greater", "GreaterOrEqual"} /\ ta = "Number" /\ tb = "Number"
    \/ op \in {"And", "Or"} /\ ta = "Bool" /\ tb = "Bool"

\* C16: Op applies +, -, *, /, % only to Number and Vec4 operands, + also to two
\* Lists and two Maps, the comparisons only to two Numbers and and/or only to
\* two Bools; every other combination fails with an error naming the operator
\* and both operands and pushes nothing; == and != give a Bool for every pair.
C16_OperandKinds ==
    \A k \in Events("op") :
        LET e == log[k]
        IN IF OpDefined(e.op, e.a.t, e.b.t)
           THEN /\ e.res = "ok" /\ Len(e.frame) = 1
                /\ e.op \in {"Equal", "NotEqual"} => e.frame[1].t = "Bool"
           ELSE /\ e.res = "err" /\ e.frame = <<>>
                /\ SubSeq(e.msg, 2, 4) = <<e.op, e.a, e.b>>

C16_Witness ==
    \E k \in Events("op") :
        /\ log[k].op = "Less" /\ log[k].a = Bool(FALSE) /\ log[k].b = Bool(TRUE)
        /\ log[k].res = "err" /\ log[k].frame = <<>>

\* C17: a + b on two lists is a new list of a's elements followed by b's, on
\* two maps a new map of the keys of both with b's value for a key of both;
\* the operands and every binding holding them are as they were.
C17_AddIsFresh ==
    \A k \in Events("op") :
        LET e == log[k]
        IN (e.op = "Add" /\ e.a.t = e.b.t /\ e.a.t \in {"List", "Map"}) =>
           /\ e.res = "ok" /\ Len(e.frame) = 1 /\ e.frame[1].t = e.a.t
           /\ e.a.t = "List" =>
                /\ Len(e.frame[1].l) = Len(e.a.l) + Len(e.b.l)
                /\ \A i \in 1..Len(e.a.l) : e.frame[1].l[i] = e.a.l[i]
                /\ \A i \in 1..Len(e.b.l) : e.frame[1].l[Len(e.a.l) + i] = e.b.l[i]
           /\ e.a.t = "Map" =>
                /\ DOMAIN e.frame[1].m = (DOMAIN e.a.m) \cup (DOMAIN e.b.m)
                /\ \A x \in DOMAIN e.frame[1].m :
                      e.frame[1].m[x] = IF x \in DOMAIN e.b.m THEN e.b.m[x] ELSE e.a.m[x]
           /\ e.after = e.before

\* c = a + b with a and b the same list, then m + {x: 1, z: 2} with x a key of both
C17_Witness ==
    /\ \E k \in Events("op") :
          /\ log[k].op = "Add" /\ log[k].a = List(<<Number(1), Number(2)>>)
          /\ {"a", "b"} \subseteq DOMAIN log[k].after.global
          /\ log[k].after.global["a"] = log[k].a /\ log[k].after.global["b"] = log[k].b
          /\ log[k].res = "ok"
    /\ \E k \in Events("op") :
          /\ log[k].op = "Add" /\ log[k].a.t = "Map" /\ log[k].b.t = "Map"
          /\ "x" \in (DOMAIN log[k].a.m) \cap (DOMAIN log[k].b.m)
          /\ log[k].a.m["x"] # log[k].b.m["x"]
          /\ "m" \in DOMAIN log[k].after.global
          /\ log[k].after.global["m"] = log[k].a /\ log[k].res = "ok"

\* the values MultiAssign hands out, in order: the elements of the List a
\* single right-hand side captured to, else the captured values
Assigned(e) ==
    IF e.rhs = 1 /\ e.captured[1].t = "List" THEN e.captured[1].l ELSE e.captured

\* C18: after a successful MultiAssign id k is bound to the k-th of the values
\* handed out (the elements of a single captured List, else the captured
\* values) or to Empty when there are fewer values than ids; surplus values are
\* ignored and a count mismatch raises no error.
C18_MultiAssign ==
    \A i \in Events("multi_assign") :
        LET e == log[i]
        IN /\ e.res = "ok"
           /\ Len(e.captured) = e.rhs
           /\ \A k \in 1..Len(e.ids) :
                 get_value(e.after, <<e.ids[k]>>)
                     = Some(IF k <= Len(Assigned(e)) THEN Assigned(e)[k] ELSE Empty)

\* p, q, r = [1, 2]: fewer values than ids
C18_Witness ==
    \E i \in Events("multi_assign") :
        /\ log[i].ids = <<"p", "q", "r">> /\ log[i].captured = <<List(<<Number(1), Number(2)>>)>>
        /\ log[i].res = "ok"
        /\ "r" \in DOMAIN global /\ global["r"] = Empty /\ global["q"] = Number(2)

\* the key min and max compare an element by
KeyOf(v, by_key) == IF by_key THEN run_function(v)[2] ELSE v
\* a is not less than b under `<`
NotLess(a, b) == LET c == binary_op("Less", a, b) IN ~c[1] \/ ~c[2].b
\* the positions of the elements of xs that are least (greatest for max)
Extremes(xs, by_key, max) ==
    {j \in 1..Len(xs) :
        \A i \in 1..Len(xs) :
            IF max THEN NotLess(KeyOf(xs[j].v, by_key), KeyOf(xs[i].v, by_key))
            ELSE NotLess(KeyOf(xs[i].v, by_key), KeyOf(xs[j].v, by_key))}
\* a call of min or max that returned a value
Compared == iter.call # None /\ iter.call[1].f \in {"min", "max"} /\ iter.call[1].res = "ok"

\* C19 (as stated): min and max, with or without a key function, return Empty
\* on empty input and otherwise the earliest in iteration order of the elements
\* that are least (min) or greatest (max) under `<`.
C19_EarliestOnTie ==
    Compared =>
        IF iter.xs = <<>> THEN iter.call[1].value = Empty
        ELSE iter.call[1].value
                 = iter.xs[Min(Extremes(iter.xs, iter.call[1].by_key, iter.call[1].f = "max"))].v

\* what the code does: max returns the earliest of the greatest elements, min
\* the latest of the least
C19_MinLatestOnTie ==
    Compared =>
        IF iter.xs = <<>> THEN iter.call[1].value = Empty
        ELSE LET S == Extremes(iter.xs, iter.call[1].by_key, iter.call[1].f = "max")
                 j == IF iter.call[1].f = "max" THEN Min(S) ELSE CHOOSE x \in S : \A y \in S : y <= x
             IN iter.call[1].value = iter.xs[j].v

\* C20 (as stated): a call of an adaptor pulls no output from the iterator of
\* xs and raises no error of it; skip(xs, n) in particular.
C20_AdaptorsAreLazy ==
    (/\ iter.call # None /\ iter.call[1].f \in Adaptors
     /\ iter.call[1].f \in {"skip", "take"} => iter.call[1].n >= 0
     /\ iter.call[1].f \in {"chunks", "windows"} => (iter.call[1].n >= 1 /\ is_sequence(iter.xs)))
    => (iter.call[1].res = "ok" /\ iter.call[1].pos1 = iter.call[1].pos0)

\* the same for the adaptors other than skip
C20_LazyButSkip ==
    (/\ iter.call # None /\ iter.call[1].f \in Adaptors \ {"skip"}
     /\ iter.call[1].f = "take" => iter.call[1].n >= 0
     /\ iter.call[1].f \in {"chunks", "windows"} => (iter.call[1].n >= 1 /\ is_sequence(iter.xs)))
    => (iter.call[1].res = "ok" /\ iter.call[1].pos1 = iter.call[1].pos0)

\* a terminal was called and pulled the first Error output of xs
PulledError ==
    /\ iter.call # None /\ iter.call[1].f \in Terminals \cup {"min", "max"}
    /\ \E k \in 1..Len(iter.xs) :
          /\ iter.xs[k] = OError /\ \A j \in 1..(k - 1) : iter.xs[j] # OError
          /\ iter.pos >= k

\* C21 (as stated): a terminal operation whose iterator yields an Error output
\* at position k returns exactly that error, pulls nothing after position k and
\* returns no partial result.
C21_UpstreamErrorAsIs ==
    PulledError =>
        /\ iter.call[1].res = "err" /\ iter.call[1].error = RuntimeError("upstream")
        /\ iter.call[1].value = Empty
        /\ iter.xs[iter.pos] = OError /\ \A j \in 1..(iter.pos - 1) : iter.xs[j] # OError

\* the same with the prefix of the error left open
C21_UpstreamErrorPrefixed ==
    PulledError =>
        /\ iter.call[1].res = "err" /\ iter.call[1].error.kind = "upstream"
        /\ iter.call[1].error.prefix # <<>> <=> iter.call[1].f \in {"min", "max", "product", "sum"}
        /\ iter.call[1].value = Empty
        /\ iter.xs[iter.pos] = OError /\ \A j \in 1..(iter.pos - 1) : iter.xs[j] # OError

\* C23 (as stated): when a callback run inside all, any, find, fold, position,
\* max, min or min_max fails, the error the builtin returns carries the prefix
\* naming that builtin.
C23_CallbackErrorPrefix ==
    (/\ iter.call # None
     /\ iter.call[1].f \in {"all", "any", "find", "fold", "position", "max", "min", "min_max"}
     /\ iter.call[1].error.kind = "callback")
    => iter.call[1].error.prefix = <<"iterator." \o iter.call[1].f>>

\* the same for the builtins other than any and min_max
C23_PrefixButAnyMinMax ==
    (/\ iter.call # None
     /\ iter.call[1].f \in {"all", "find", "fold", "position", "max", "min"}
     /\ iter.call[1].error.kind = "callback")
    => iter.call[1].error.prefix = <<"iterator." \o iter.call[1].f>>

\* ---- C22
\* what the registrations made so far amount to, kept as a set of
\* <<name, entry>> pairs with one pair a name: the last registration wins
RECURSIVE Put(_, _, _, _, _)
Put(tree, path, i, name, e) ==
    IF i > Len(path)
    THEN {x \in tree : x[1] # name} \cup {<<name, e>>}
    ELSE {IF x[1] = path[i]
          THEN <<x[1], [t |-> "Map", m |-> Put(x[2].m, path, i + 1, name, e)]>>
          ELSE x : x \in tree}
RECURSIVE Replay(_)
Replay(n) ==
    IF n = 0 THEN {}
    ELSE Put(Replay(n - 1), log[n].path, 1, log[n].name,
             IF log[n].bv.t = "Map" THEN [t |-> "Map", m |-> {}] ELSE log[n].bv)
RECURSIVE Find(_, _, _)
Find(tree, p, i) ==
    IF ~\E x \in tree : x[1] = p[i] THEN "None"
    ELSE LET e == (CHOOSE x \in tree : x[1] = p[i])[2]
         IN IF i = Len(p) THEN (IF e.t = "Map" THEN "Map" ELSE e.f)
            ELSE IF e.t = "Map" THEN Find(e.m, p, i + 1) ELSE "None"
\* what get_mut(p) returns: None, a sub-map, or the function registered
Got(p) ==
    LET r == builtin_get_mut(builtins, p, 1)
    IN IF r = None THEN "None" ELSE IF r[1].t = "Map" THEN "Map" ELSE r[1].f
RECURSIVE UniqueNames(_)
UniqueNames(bm) ==
    /\ \A i, j \in 1..Len(bm) : bm[i][1] = bm[j][1] => i = j
    /\ \A i \in 1..Len(bm) : bm[i][2].t = "Map" => UniqueNames(bm[i][2].m)
LookupPaths ==
    {<<a>> : a \in Segments} \cup (Segments \X Segments) \cup (Segments \X Segments \X Segments)

\* C22: after any sequence of add_fn and add_map calls each name occurs at
\* most once in a BuiltinMap, and get_mut(path) returns the entry registered
\* last at that path: None when a segment is absent or a non-final segment
\* is a Function
C22_LastRegistrationWins ==
    /\ UniqueNames(builtins)
    /\ \A p \in LookupPaths : Got(p) = Find(Replay(Len(log)), p, 1)

\* a function at "m" was replaced by a sub-map, and a function registered in it
C22_Witness ==
    /\ Len(log) = 3
    /\ log[1].path = <<>> /\ log[1].name = "m" /\ log[1].bv.t = "Function"
    /\ log[2].path = <<>> /\ log[2].name = "m" /\ log[2].bv.t = "Map"
    /\ log[3].path = <<"m">> /\ log[3].name = "f"
    /\ Got(<<"m", "f">>) = "count"
    /\ Got(<<"m", "f", "f">>) = "None"
    /\ Got(<<"f">>) = "None"

\* ---- C24
\* C24: a successful evaluate(node) returns with exactly one frame more than
\* it was entered with, whatever the node kind, and the frames that were on
\* the return stack at entry are as they were.
C24_FrameBalance ==
    \A i \in Events("eval") :
        log[i].res = "ok" => (log[i].depth = log[i].base + 1 /\ log[i].below)

\* nodes of a call, a conditional, an operation and a block of a function body
\* were evaluated with success, under frames that were already there
C24_Witness ==
    /\ Succeeded
    /\ \A k \in {"Call", "If", "Op", "Id", "Number"} :
          \E i \in Events("eval") : log[i].k = k /\ log[i].res = "ok" /\ log[i].base > 2

\* ---- C25
\* C25 (as stated): a successful run leaves the return stack with the number
\* of frames it had before the run.
C25_RunKeepsDepthAsStated ==
    [][(runs' = runs + 1 /\ result'.res = "ok") =>
           Len(return_stack') = Len(return_stack)]_vars

\* ---- C26
\* C26 (as stated): whenever the evaluator reads return_stack.value() the top
\* frame holds exactly one value, whatever the script.
C26_SingleValueAsStated == Events("undefined_value") = {}

\* ---- C30
\* a value that is no For and no Range, and holds none in a List or a Map
RECURSIVE Plain(_)
Plain(v) ==
    CASE v.t \in {"For", "Range"} -> FALSE
      [] v.t = "List" -> \A i \in 1..Len(v.l) : Plain(v.l[i])
      [] v.t = "Map" -> \A x \in DOMAIN v.m : Plain(v.m[x])
      [] OTHER -> TRUE

\* C30: evaluate_and_capture never yields a For or a Range: what Assign and
\* MultiAssign store, what a call binds, what a loop binds and what run returns
\* holds neither, and an assigned range min..max is stored as Empty, as the
\* Number min or as the List of the Numbers min .. max-1.
C30_CaptureIsPlain ==
    /\ \A i \in Events("capture") :
          Len(log[i].frame) = 1 /\ Plain(log[i].frame[1])
    /\ \A i \in Events("assign") : Plain(log[i].v)
    /\ \A i \in Events("enter") : \A x \in DOMAIN log[i].frame : Plain(log[i].frame[x])
    /\ \A i \in Events("bind") :
          \A j \in 1..Len(log[i].bound) : log[i].bound[j] # None => Plain(log[i].bound[j][1])
    /\ \A x \in DOMAIN global : Plain(global[x])
    /\ Succeeded => Plain(result.value)
    /\ \A lo, hi \in 0..(MaxBound + 1) :
          (Succeeded /\ last = <<Set("a", NRange(N(lo), FALSE, N(hi)))>>) =>
              global["a"] = CASE hi - lo = 0 -> Empty
                              [] hi - lo = 1 -> Number(lo)
                              [] OTHER -> List(Numbers(lo, hi))

\* a = 0..3 stored the List [0, 1, 2]
C30_Witness ==
    /\ Succeeded
    /\ last = <<Set("a", NRange(N(0), FALSE, N(3)))>>
    /\ global["a"] = List(Numbers(0, 3))
    /\ \E i \in Events("capture") : log[i].vals = Numbers(0, 3)

\* ---- C27
\* C27: a call of a user function that passed the arity check and whose
\* arguments were all evaluated commits exactly one call frame before the body
\* runs and pops exactly one after it, whether the body succeeds or fails:
\* call_stack.frame() is on return from call_function what it was on entry,
\* at every depth of nesting.
C27_CallFrameBalance ==
    \A i \in Events("call") :
        \A j \in Events("enter") :
            (log[j].at = log[i].at /\ log[i].res # "abort") =>
                /\ log[j].depth = Len(log[i].cs0.frames) + 1
                /\ Len(log[i].cs1.frames) = Len(log[i].cs0.frames)
                /\ log[i].cs1.frames = log[i].cs0.frames

\* a call made from the body of another call returned an error from its own
\* body, the outer call returned it, and no call frame is left
C27_Witness ==
    /\ \E i \in Events("call"), j \in Events("enter") :
          /\ log[j].at = log[i].at /\ log[i].res = "err" /\ log[j].depth = 2
    /\ \E i \in Events("call"), j \in Events("enter") :
          /\ log[j].at = log[i].at /\ log[i].res = "err" /\ log[j].depth = 1
    /\ call_stack.frames = <<>>

\* ---- C28
\* C28 (as stated): in a call m.f(x1..xn) of a function declared
\* (self, a1..an) the frame binds each ai to the captured value of xi (checked
\* where xi is a number literal, whose captured value is that number) and
\* binds self to none of the xi but to the receiver.
C28_ArgumentsAfterSelfAsStated ==
    \A i \in Events("enter") :
        LET e == log[i] IN
        (Len(e.id) > 1 /\ Len(e.f.args) > 1 /\ e.f.args[1] = "self") =>
            /\ \A k \in 1..e.nargs :
                  e.args[k].k = "Number" =>
                      /\ e.f.args[k + 1] \in DOMAIN e.frame
                      /\ e.frame[e.f.args[k + 1]] = Number(e.args[k].n)
            /\ e.frame["self"] = e.receiver[1]

\* ---- C29
\* C29 (as stated): the frame committed for a call of a user function through
\* a plain name holds the bindings of that call and no other, the function's
\* name and its arguments, also when the call is an argument of another call
\* or has such a call among its arguments.
C29_StagedPerCallAsStated ==
    \A i \in Events("enter") :
        LET e == log[i] IN
        Len(e.id) = 1 =>
            DOMAIN e.frame = {e.id[1]} \cup {e.f.args[k] : k \in 1..Len(e.f.args)}

====
